---- MODULE Spec2Model ----
(***************************************************************************)
(* A model of vasili, a multi-radio WiFi connectivity daemon               *)
(* (src/vasili.py and src/modules/*.py).                                   *)
(*                                                                         *)
(* A WifiCard is a Python object: two enumerations of the same interface   *)
(* give two distinct objects, compared by identity (WifiCard defines no    *)
(* __eq__).  A card is therefore modelled as [iface, gen], gen being the   *)
(* enumeration that constructed it.  The attribute card.in_use is the set  *)
(* in_use of the card objects whose flag is True.                          *)
(***************************************************************************)
EXTENDS Naturals, Sequences, FiniteSets

(***************************************************************************)
(* Bounds of the model.                                                    *)
(***************************************************************************)
\* number of enumerations (the initial one included) in one behaviour
MaxGen == 2
\* snapshots the Scanner may have queued and not yet consumed
MaxQueue == 1
\* queued snapshots up to which the channel alone is followed
MaxBacklog == 3
\* worker threads created in one behaviour
MaxThreads == 4
\* the count of outstanding leases of one card saturates here
MaxHeld == 2
\* NetworkBridge objects constructed in one behaviour
MaxBridges == 2

(***************************************************************************)
(* Program constants.                                                      *)
(***************************************************************************)
\* ConnectionMonitor(max_reconnect_attempts=5)
MaxReconnectAttempts == 5
\* card.reconnect(max_retries=2, base_delay=0.5) in _monitor_worker
ReconnectMaxRetries == 2
\* AutoSelectionConfig.min_score_improvement = 10.0, in hundredths of a point
DefaultMinScoreImprovement == 1000
\* self.scan_queue = queue.Queue(): maxsize is left at its default, 0
QueueMaxSize == 0

(***************************************************************************)
(* Values.                                                                 *)
(***************************************************************************)
\* interface names of the host; the wlan* ones pass the prefix filter
WirelessNames == {"wlan0", "wlan1", "wlan2"}
HostNames == WirelessNames \cup {"eth0"}
None == "None"
NoCard == [iface |-> None, gen |-> 0]
\* every card object an enumeration can construct
AllCards == [iface : WirelessNames, gen : 1..MaxGen]

Range(s) == {s[k] : k \in DOMAIN s}
Last(s) == s[Len(s)]
Front(s) == SubSeq(s, 1, Len(s) - 1)
Interfaces(cs) == {cs[k].iface : k \in DOMAIN cs}

\* the lists netifaces.interfaces() may return: no name twice
HostLists ==
    {s \in UNION {[1..n -> HostNames] : n \in 0..Cardinality(WirelessNames)} :
        \A a, b \in DOMAIN s : s[a] = s[b] => a = b}
\* the interfaces whose iwconfig probe fails in one enumeration
ProbeFailSets == {{}, {"wlan0"}}
\* the configurations (config.interfaces) the daemon is started with
Configs ==
    [excluded : {{}, {"wlan2"}},
     preferred : {<<>>, <<"wlan2", "wlan1">>},
     scan_interface : {None, "wlan1"}]

\* the access points a scan may report (WifiNetwork)
AP_Cafe == [ssid |-> "Cafe", bssid |-> "00:11", is_open |-> TRUE, encryption_type |-> ""]
AP_Home == [ssid |-> "Home", bssid |-> "00:22", is_open |-> FALSE, encryption_type |-> "WPA2"]
NoNetwork == [ssid |-> None, bssid |-> None, is_open |-> FALSE, encryption_type |-> None]
\* the lists card.scan() may return; <<>> is also what a failed scan returns
Snapshots ==
    {<<>>, <<AP_Cafe, AP_Cafe, AP_Home>>}
\* the connection modules _load_connection_modules instantiates, in directory
\* order (here: by file name)
Modules == <<"captive_portal", "open", "speedtest", "wpa2", "wpa3">>

VARIABLES
    \* ---- WifiCardManager and WifiCard
    config,         \* get_config().interfaces, loaded once
    cards,          \* WifiCardManager.cards
    scanning_card,  \* WifiCardManager._scanning_card
    in_use,         \* the cards whose in_use flag is True
    gen,            \* enumerations done so far
    connected_network,  \* card._connected_network of each card object
    \* ---- NetworkScanner
    scanning,       \* NetworkScanner.scanning
    scan_ctl,       \* the thread calling start_scan / stop_scan: stopped, running, joining
    scan_pc,        \* _scan_worker: idle (no thread), top, scan, sleep, except, done
    scan_local,     \* _scan_worker's local variable card
    scan_results,   \* NetworkScanner.scan_results
    scan_queue,     \* NetworkScanner.scan_queue
    \* ---- WifiManager.scan_and_connect and the module it is calling
    disp_pc,        \* wait, net, mod, lease, assoc, portal, speed, result, watch
    networks,       \* the snapshot being processed
    net_i,          \* index of the network being processed
    mod_i,          \* index of the module being offered the network
    mod_card,       \* the module's local variable card
    result,         \* the ConnectionResult module.connect returned
    associated,     \* what card.connect returned in the attempt under way: none, ok, failed
    suitable_connections,   \* WifiManager.suitable_connections
    \* ---- ConnectionMonitor
    monitored_cards,    \* ConnectionMonitor._monitored_cards
    reconnect_attempts, \* _monitor_worker's reconnect_attempts (absent reads 0)
    mon_pc,         \* _monitor_worker: top, check, reconnect, notify_fail, prune_write
    cards_to_check, \* _monitor_worker's copy of the watchlist
    mon_i,          \* index of the card being checked
    pruned,         \* _on_reconnect: the filtered list, built and not yet assigned
    \* ---- NetworkBridge, WifiManager.use_connection, AutoSelector and the host
    active_bridge,  \* WifiManager.active_bridge: a bridge id, 0 for None
    bridges,        \* the NetworkBridge objects constructed so far, by id
    current_bridge, \* WifiManager.status['current_bridge']
    ip_forward,     \* /proc/sys/net/ipv4/ip_forward
    iptables,       \* the rules in the host's filter and nat tables
    eth_address,    \* 192.168.10.1/24 is assigned to the ethernet interface
    dhcp_servers,   \* ids of the bridges whose dnsmasq server runs
    sel_enabled,    \* AutoSelector._enabled
    min_score_improvement,  \* AutoSelector.min_score_improvement, in hundredths
    uc,             \* per calling thread, its position inside use_connection
    \* ---- ConnectionResult.calculate_score and WifiCard.scan's signal parsing
    measured,       \* the ConnectionResult whose score is asked for
    score,          \* what calculate_score returned for it, in hundredths; NoValue before
    reading,        \* the signal field of an iwlist cell
    signal,         \* the signal_strength scan() stored for it; NoValue before
    \* ---- CardStateManager
    registry,       \* CardStateManager's cards, by interface
    \* ---- the worker threads of NetworkScanner, ConnectionMonitor and AutoSelector
    running_flag,   \* per component: scanning, _monitoring, _running
    thread_of,      \* per component: scan_thread, _monitor_thread, _thread (0 for None)
    worker_pc,      \* per thread created so far, where its worker function is
    main_pc,        \* the thread running scan_and_connect
    last_call,      \* the start or stop call that just returned, or NoCall
    \* ---- one WifiCard on which connect / reconnect is called
    wifi_card,      \* its in_use, _connected_network and _connection_password
    connect_call,   \* the connect call under way: its arguments, locals and position
    \* ---- bookkeeping of the verification (not program state)
    last_tick,      \* what the selector step that just ran did, or NoTick
    mon_last,       \* what the Monitor's or Dispatcher's latest catalog-related step
                    \* did; stays NotRecorded where it is not followed
    held,           \* per card, lease_card calls that returned it and were not returned
    last_lease      \* the lease_card call that just returned, or NoLease

poolVars == <<config, cards, scanning_card, in_use, gen>>
scanVars == <<scanning, scan_ctl, scan_pc, scan_local, scan_results, scan_queue>>
dispVars == <<disp_pc, networks, net_i, mod_i, mod_card, result, associated>>
monVars == <<monitored_cards, reconnect_attempts, mon_pc, cards_to_check, mon_i, pruned>>
engineVars ==
    <<connected_network, scanVars, dispVars, suitable_connections, monVars>>
hostVars == <<ip_forward, iptables, eth_address, dhcp_servers>>
gwVars ==
    <<active_bridge, bridges, current_bridge, hostVars, sel_enabled,
      min_score_improvement, uc, last_tick>>
pureVars == <<measured, score, reading, signal>>
lifeVars == <<running_flag, thread_of, worker_pc, main_pc, last_call>>
callVars == <<wifi_card, connect_call, mon_last>>
auxVars == <<pureVars, registry, lifeVars, callVars>>
vars == <<poolVars, engineVars, held, last_lease, gwVars, auxVars>>

NoLease == [for_scanning |-> FALSE, card |-> NoCard, called |-> FALSE]

(***************************************************************************)
(* WifiCardManager.scan_for_cards                                          *)
(***************************************************************************)
\* interface.startswith(('wlan', 'wifi'))
IsWifiName(i) == i \in WirelessNames

\* wifi_interfaces: the host's wireless interfaces that are not excluded
WifiInterfaces(hostlist, cfg) ==
    SelectSeq(hostlist, LAMBDA i : IsWifiName(i) /\ i \notin cfg.excluded)

\* sort_key: index in the preferred list, or len(preferred) + 1
SortKey(iface, preferred) ==
    IF \E k \in DOMAIN preferred : preferred[k] = iface
    THEN (CHOOSE k \in DOMAIN preferred :
              /\ preferred[k] = iface
              /\ \A j \in 1..(k - 1) : preferred[j] # iface) - 1
    ELSE Len(preferred) + 1

RECURSIVE InsertByKey(_, _, _)
InsertByKey(x, s, preferred) ==
    IF s = <<>> THEN <<x>>
    ELSE IF SortKey(Head(s), preferred) <= SortKey(x, preferred)
         THEN <<Head(s)>> \o InsertByKey(x, Tail(s), preferred)
         ELSE <<x>> \o s

\* list.sort(key=sort_key): a stable sort
RECURSIVE SortByPreference(_, _)
SortByPreference(s, preferred) ==
    IF s = <<>> THEN <<>>
    ELSE InsertByKey(Last(s), SortByPreference(Front(s), preferred), preferred)

\* the ordered interfaces a card is constructed for
OrderedInterfaces(hostlist, cfg) ==
    IF cfg.preferred # <<>>
    THEN SortByPreference(WifiInterfaces(hostlist, cfg), cfg.preferred)
    ELSE WifiInterfaces(hostlist, cfg)

\* self.cards after the "Initialize cards" loop: WifiCard(interface) raises for
\* the interfaces whose probe fails, and those are skipped
NewCards(hostlist, probe_fail, cfg, g) ==
    LET ok == SelectSeq(OrderedInterfaces(hostlist, cfg), LAMBDA i : i \notin probe_fail)
    IN  [k \in DOMAIN ok |-> [iface |-> ok[k], gen |-> g]]

\* the card of cs with the configured interface (the for loop with break)
ConfiguredCard(cs, cfg) ==
    IF cfg.scan_interface \in Interfaces(cs)
    THEN cs[CHOOSE k \in DOMAIN cs : cs[k].iface = cfg.scan_interface]
    ELSE NoCard

\* self._scanning_card when scan_for_cards returns.  old is the value on entry:
\* the method never clears it, the early "return 0" of an empty enumeration
\* leaves it alone, and the fallback to cards[0] is guarded by
\* "not self._scanning_card"
DesignateScanningCard(old, cs, cfg) ==
    IF cs = <<>> THEN old
    ELSE LET configured == IF cfg.scan_interface # None
                           THEN ConfiguredCard(cs, cfg) ELSE NoCard
             afterConfig == IF configured # NoCard THEN configured ELSE old
         IN  IF afterConfig = NoCard THEN cs[1] ELSE afterConfig

\* one call of scan_for_cards; failed: netifaces.interfaces() raised
scan_for_cards(hostlist, probe_fail, failed) ==
    /\ gen < MaxGen
    /\ gen' = gen + 1
    /\ LET cs == IF failed THEN <<>>
                 ELSE NewCards(hostlist, probe_fail, config, gen + 1)
       IN  /\ cards' = cs
           /\ scanning_card' = DesignateScanningCard(scanning_card, cs, config)
    /\ last_lease' = NoLease
    /\ UNCHANGED <<config, in_use, held, engineVars, gwVars, auxVars>>

(***************************************************************************)
(* WifiCardManager.lease_card / get_card / return_card                     *)
(***************************************************************************)
\* a lease_card whose loop does not skip the scanning card
ConnectionCandidates_NoSkip ==
    SelectSeq(cards, LAMBDA c : c \notin in_use)

\* the cards the connection branch of lease_card may hand out
ConnectionCandidates ==
    SelectSeq(cards, LAMBDA c : c # scanning_card /\ c \notin in_use)

\* the card lease_card returns, NoCard for None
LeaseResult(for_scanning) ==
    IF for_scanning
    THEN IF scanning_card # NoCard /\ scanning_card \notin in_use
         THEN scanning_card ELSE NoCard
    ELSE IF ConnectionCandidates # <<>> THEN ConnectionCandidates[1] ELSE NoCard

\* in_use after lease_card marked the card it returns
Leased(c) == IF c = NoCard THEN in_use ELSE in_use \cup {c}

\* in_use after return_card(c): a card that is not in self.cards is ignored
Returned(c) == IF c \in Range(cards) THEN in_use \ {c} ELSE in_use

\* bookkeeping: one more / one fewer outstanding lease of c
HeldAfterLease(c) ==
    IF c = NoCard \/ held[c] >= MaxHeld THEN held ELSE [held EXCEPT ![c] = @ + 1]
HeldAfterReturn(c) ==
    IF c = NoCard \/ held[c] = 0 THEN held ELSE [held EXCEPT ![c] = @ - 1]

\* the effect of one lease_card(for_scanning) call that returns c
LeaseCall(for_scanning, c) ==
    /\ c = LeaseResult(for_scanning)
    /\ in_use' = Leased(c)
    /\ held' = HeldAfterLease(c)
    /\ last_lease' = [for_scanning |-> for_scanning, card |-> c, called |-> TRUE]
    /\ UNCHANGED <<config, cards, scanning_card, gen>>

\* the effect of one return_card(c) call
ReturnCall(c) ==
    /\ in_use' = Returned(c)
    /\ held' = HeldAfterReturn(c)
    /\ last_lease' = NoLease
    /\ UNCHANGED <<config, cards, scanning_card, gen>>

\* an API client calls lease_card(for_scanning)
lease_card(for_scanning) ==
    /\ LeaseCall(for_scanning, LeaseResult(for_scanning))
    /\ UNCHANGED <<engineVars, gwVars, auxVars>>

\* an API client returns a card it leased
return_card(c) ==
    /\ held[c] > 0
    /\ ReturnCall(c)
    /\ UNCHANGED <<engineVars, gwVars, auxVars>>

(***************************************************************************)
(* The engine's components before any of them has run.                     *)
(***************************************************************************)
NoResult == [connected |-> FALSE, interface |-> None, connection_method |-> None,
             network |-> NoNetwork]

InitEngineVars ==
    /\ connected_network = [c \in AllCards |-> NoNetwork]
    /\ scanning = FALSE /\ scan_ctl = "stopped" /\ scan_pc = "idle"
    /\ scan_local = NoCard /\ scan_results = <<>> /\ scan_queue = <<>>
    /\ disp_pc = "wait" /\ networks = <<>> /\ net_i = 0 /\ mod_i = 0
    /\ mod_card = NoCard /\ result = NoResult /\ associated = "none"
    /\ suitable_connections = <<>>
    /\ monitored_cards = <<>>
    /\ reconnect_attempts = [i \in WirelessNames |-> 0]
    /\ mon_pc = "top" /\ cards_to_check = <<>> /\ mon_i = 0 /\ pruned = <<>>

(***************************************************************************)
(* The gateway side before anything has run: no bridge, status without a   *)
(* binding, the selector disabled (AutoSelectionConfig.enabled = False).   *)
(***************************************************************************)
\* the threads that may be inside use_connection: the selector worker and a
\* request handler of the HTTP server
Callers == {"selector", "http"}

BridgeIds == 1..MaxBridges

\* a NetworkBridge that was not constructed yet; entry_ip_forward and
\* entry_iptables record the host's values when start() was entered
NoBridge ==
    [wifi_interface |-> None, is_active |-> FALSE, nat_configured |-> FALSE,
     ip_configured |-> FALSE, dhcp_server |-> FALSE, original_ip_forward |-> None,
     entry_ip_forward |-> None, entry_iptables |-> {}]

\* NetworkBridge.__init__
NewBridge(wifi_interface) == [NoBridge EXCEPT !.wifi_interface = wifi_interface]

\* status['current_bridge'] = None
NoBinding == [wifi_interface |-> None, ethernet_interface |-> None, ssid |-> None]

\* a thread that is not inside use_connection
IdleCall == [pc |-> "idle", index |-> 0, connection |-> NoResult, bridge |-> 0]

NoTick == [kind |-> "none", evaluated |-> FALSE, requested |-> FALSE, index |-> 0]

\* calculate_score was not called yet / scan() parsed no signal field yet
NoScore == [returned |-> FALSE, value |-> 0]
NoReading == [form |-> "none", x |-> 0, n |-> 0]
NoSignal == [stored |-> FALSE, value |-> 0]

\* the worker-owning components and their state before any start call
Components == {"scanner", "monitor", "selector"}
NoCall ==
    [op |-> "none", component |-> None, phase |-> "returned", flag_before |-> FALSE]

InitPure ==
    /\ measured = NoResult /\ score = NoScore
    /\ reading = NoReading /\ signal = NoSignal

InitLife ==
    /\ running_flag = [c \in Components |-> FALSE]
    /\ thread_of = [c \in Components |-> 0]
    /\ worker_pc = <<>>
    /\ main_pc = "idle"
    /\ last_call = NoCall

\* WifiCard.__init__: not in use, nothing cached
NewWifiCard == [in_use |-> FALSE, connected_network |-> NoNetwork, connection_password |-> None]

\* no connect call was made yet
NoConnectCall ==
    [pc |-> "idle", network |-> NoNetwork, password |-> None, max_retries |-> 0,
     base_delay |-> 0, attempt |-> 0, outcomes |-> <<>>, slept |-> <<>>,
     returned |-> FALSE, before |-> NewWifiCard]

\* the Monitor's steps are not followed
NotRecorded ==
    [kind |-> "off", interface |-> None, attempts |-> 0, tries |-> 0, notified |-> <<>>,
     network |-> NoNetwork, appended |-> <<>>, given_up |-> {},
     streak |-> [i \in WirelessNames |-> 0]]

\* what the Monitor's and the Dispatcher's recorded steps leave alone besides the engine's variables
monFrame == <<gwVars, pureVars, registry, lifeVars, wifi_card, connect_call>>

\* the record of a step, kept only where the steps are followed
Record(x) == IF mon_last = NotRecorded THEN mon_last ELSE x

InitCalls ==
    /\ wifi_card = NewWifiCard
    /\ connect_call = NoConnectCall

\* no CardStateManager was constructed
NoRegistry == <<>>

\* CardStateManager.assign_roles(interfaces): the configured scan interface, or
\* else the first one, gets the SCANNING role, the others CONNECTION; every
\* card is saved as idle and not in use
assign_roles(interfaces, cfg) ==
    IF interfaces = <<>> THEN NoRegistry
    ELSE LET scan_iface == IF cfg.scan_interface \in Range(interfaces)
                           THEN cfg.scan_interface ELSE interfaces[1]
         IN  [i \in Range(interfaces) |->
                 [interface |-> i,
                  role |-> IF i = scan_iface THEN "scanning" ELSE "connection",
                  state |-> "idle", in_use |-> FALSE]]

\* CardStateManager.get_status()['cards_in_use']
cards_in_use == Cardinality({i \in DOMAIN registry : registry[i].in_use})

InitGatewayVars ==
    /\ InitPure /\ InitLife /\ InitCalls
    /\ active_bridge = 0
    /\ bridges = [b \in BridgeIds |-> NoBridge]
    /\ current_bridge = NoBinding
    /\ dhcp_servers = {}
    /\ eth_address = FALSE
    /\ sel_enabled = FALSE
    /\ uc = [t \in Callers |-> IdleCall]
    /\ last_tick = NoTick

\* a host with forwarding off and empty rule tables, the default configuration
InitIdleGateway ==
    /\ InitGatewayVars
    /\ ip_forward = "0"
    /\ iptables = {}
    /\ min_score_improvement = DefaultMinScoreImprovement

(***************************************************************************)
(* The pool as its API clients drive it: WifiCardManager() followed by any *)
(* interleaving of lease_card, return_card and scan_for_cards calls.       *)
(***************************************************************************)
InitPool ==
    /\ config \in Configs
    /\ gen = 1
    /\ \E hostlist \in HostLists, probe_fail \in ProbeFailSets, failed \in BOOLEAN :
          LET cs == IF failed THEN <<>> ELSE NewCards(hostlist, probe_fail, config, 1)
          IN  /\ cards = cs
              /\ scanning_card = DesignateScanningCard(NoCard, cs, config)
    /\ in_use = {}
    /\ held = [c \in AllCards |-> 0]
    /\ last_lease = NoLease
    /\ registry = assign_roles([k \in DOMAIN cards |-> cards[k].iface], config)
    /\ mon_last = NotRecorded
    /\ InitEngineVars
    /\ InitIdleGateway

Lease == \E for_scanning \in BOOLEAN : lease_card(for_scanning)

Return == \E c \in AllCards : return_card(c)

Rescan ==
    \/ \E hostlist \in HostLists, probe_fail \in ProbeFailSets :
          scan_for_cards(hostlist, probe_fail, FALSE)
    \/ scan_for_cards(<<>>, {}, TRUE)

NextPool == Lease \/ Return \/ Rescan

SpecPool == InitPool /\ [][NextPool]_vars

(***************************************************************************)
(* WifiCard.connect / reconnect, as seen by the rest of the engine: the    *)
(* call ends with success (a try returned 0) or with failure (every try    *)
(* failed).  It writes card.in_use itself, outside the pool's lock.        *)
(***************************************************************************)
\* card.in_use after connect: True on success, False after the last failure
InUseAfterConnect(c, ok) == IF ok THEN in_use \cup {c} ELSE in_use \ {c}

\* card._connected_network after connect: cached on success only
NetworkAfterConnect(c, network, ok) ==
    IF ok THEN [connected_network EXCEPT ![c] = network] ELSE connected_network

ConnectCall(c, network, ok) ==
    /\ in_use' = InUseAfterConnect(c, ok)
    /\ connected_network' = NetworkAfterConnect(c, network, ok)

(***************************************************************************)
(* NetworkScanner                                                          *)
(***************************************************************************)
start_scan ==
    /\ scan_ctl = "stopped"
    /\ ~scanning
    /\ scanning' = TRUE
    /\ scan_pc' = "top"
    /\ scan_ctl' = "running"
    /\ last_lease' = NoLease
    /\ UNCHANGED <<poolVars, held, connected_network, scan_local, scan_results,
                   scan_queue, dispVars, suitable_connections, monVars>>
    /\ UNCHANGED <<gwVars, auxVars>>

\* stop_scan up to its join(): the flag is cleared
stop_scan_flag ==
    /\ scan_ctl = "running"
    /\ scanning' = FALSE
    /\ scan_ctl' = "joining"
    /\ last_lease' = NoLease
    /\ UNCHANGED <<poolVars, held, connected_network, scan_pc, scan_local, scan_results,
                   scan_queue, dispVars, suitable_connections, monVars>>
    /\ UNCHANGED <<gwVars, auxVars>>

\* stop_scan's join() returns once the worker has left its loop
stop_scan_join ==
    /\ scan_ctl = "joining"
    /\ scan_pc = "done"
    /\ scan_pc' = "idle"
    /\ scan_ctl' = "stopped"
    /\ last_lease' = NoLease
    /\ UNCHANGED <<poolVars, held, connected_network, scanning, scan_local, scan_results,
                   scan_queue, dispVars, suitable_connections, monVars>>
    /\ UNCHANGED <<gwVars, auxVars>>

\* _scan_worker, top of the loop: leave when the flag is down, else lease the
\* scanning card; without a card it sleeps 1 s and comes back here
ScanLoopTop ==
    /\ scan_pc = "top"
    /\ IF ~scanning
       THEN /\ scan_pc' = "done"
            /\ last_lease' = NoLease
            /\ UNCHANGED <<poolVars, held, scan_local>>
       ELSE /\ LeaseCall(TRUE, LeaseResult(TRUE))
            /\ scan_local' = LeaseResult(TRUE)
            /\ scan_pc' = IF LeaseResult(TRUE) = NoCard THEN "top" ELSE "scan"
    /\ UNCHANGED <<connected_network, scanning, scan_ctl, scan_results, scan_queue,
                   dispVars, suitable_connections, monVars>>
    /\ UNCHANGED <<gwVars, auxVars>>

\* Queue.put blocks while the queue is full; a queue constructed with maxsize 0
\* or less never is
Full(q) == QueueMaxSize > 0 /\ Len(q) >= QueueMaxSize

\* card.scan() returned nets (the empty list when the scan failed); the worker
\* stores and queues it and goes to sleep(scan_interval), inside the try block;
\* backlog is the number of queued snapshots up to which the run is followed
ScanPublishUpTo(nets, backlog) ==
    /\ scan_pc = "scan"
    /\ ~Full(scan_queue)
    /\ Len(scan_queue) < backlog
    /\ scan_results' = nets
    /\ scan_queue' = Append(scan_queue, nets)
    /\ scan_pc' = "sleep"
    /\ last_lease' = NoLease
    /\ UNCHANGED <<poolVars, held, connected_network, scanning, scan_ctl, scan_local,
                   dispVars, suitable_connections, monVars>>
    /\ UNCHANGED <<gwVars, auxVars>>

ScanPublish(nets) == ScanPublishUpTo(nets, MaxQueue)

\* card.scan() raised something it does not catch: the worker logs and sleeps 1 s
ScanRaise ==
    /\ scan_pc = "scan"
    /\ scan_pc' = "except"
    /\ last_lease' = NoLease
    /\ UNCHANGED <<poolVars, held, connected_network, scanning, scan_ctl, scan_local,
                   scan_results, scan_queue, dispVars, suitable_connections, monVars>>
    /\ UNCHANGED <<gwVars, auxVars>>

\* a scanner that returns the card on the normal path only
ScannerReturnsOn_NormalPathOnly(path) == path = "sleep"

\* the finally block runs after the sleep of either path
ScannerReturnsOn(path) == path \in {"sleep", "except"}

\* finally: if card: return_card(card)
ScanFinally ==
    /\ scan_pc \in {"sleep", "except"}
    /\ IF ScannerReturnsOn(scan_pc) /\ scan_local # NoCard
       THEN ReturnCall(scan_local)
       ELSE last_lease' = NoLease /\ UNCHANGED <<poolVars, held>>
    /\ scan_local' = NoCard
    /\ scan_pc' = "top"
    /\ UNCHANGED <<connected_network, scanning, scan_ctl, scan_results, scan_queue,
                   dispVars, suitable_connections, monVars>>
    /\ UNCHANGED <<gwVars, auxVars>>

(***************************************************************************)
(* WifiManager.scan_and_connect (the Dispatcher) and the connection        *)
(* modules it calls (src/modules).                                         *)
(***************************************************************************)
\* module.can_connect(network)
CanConnect(module, network) ==
    CASE module = "open" -> network.is_open
      [] module = "captive_portal" -> network.is_open
      [] module = "wpa2" -> network.encryption_type = "WPA2"
      [] module = "wpa3" -> network.encryption_type = "WPA3"
      [] module = "speedtest" -> TRUE

\* a Dispatcher that never skips a network
AlreadyConnected_Never(network) == FALSE

\* already_connected: some catalog entry has this BSSID and is connected
AlreadyConnected(network) ==
    \E k \in DOMAIN suitable_connections :
        /\ suitable_connections[k].network.bssid = network.bssid
        /\ suitable_connections[k].connected

\* the ConnectionResult a module builds
Result(network, module, connected, interface) ==
    [connected |-> connected, interface |-> interface, connection_method |-> module,
     network |-> network]

\* networks = self.scanner.get_next_scan(): blocks until a snapshot is queued
GetNextScan ==
    /\ disp_pc = "wait"
    /\ scan_queue # <<>>
    /\ networks' = Head(scan_queue)
    /\ scan_queue' = Tail(scan_queue)
    /\ net_i' = 1
    /\ disp_pc' = "net"
    /\ last_lease' = NoLease
    /\ UNCHANGED <<poolVars, held, connected_network, scanning, scan_ctl, scan_pc,
                   scan_local, scan_results, mod_i, mod_card, associated, result,
                   suitable_connections, monVars>>
    /\ UNCHANGED <<gwVars, auxVars>>

\* for network in networks: skip it when already connected
NextNetwork ==
    /\ disp_pc = "net"
    /\ IF net_i > Len(networks)
       THEN /\ disp_pc' = "wait"
            /\ networks' = <<>>
            /\ net_i' = 0
            /\ mod_i' = 0
       ELSE IF AlreadyConnected(networks[net_i])
            THEN /\ net_i' = net_i + 1
                 /\ UNCHANGED <<disp_pc, networks, mod_i>>
            ELSE /\ mod_i' = 1
                 /\ disp_pc' = "mod"
                 /\ UNCHANGED <<networks, net_i>>
    /\ last_lease' = NoLease
    /\ UNCHANGED <<poolVars, held, connected_network, scanVars, mod_card, associated, result,
                   suitable_connections, monVars>>
    /\ UNCHANGED <<gwVars, auxVars>>

\* the modules from position i on that accept the network
EligibleFrom(i, network) ==
    {k \in i..Len(Modules) : CanConnect(Modules[k], network)}

\* a loop that offers the network to the last module first
Min_Last(S) == CHOOSE k \in S : \A j \in S : k >= j

\* the smallest member of a non-empty set of positions
Min(S) == CHOOSE k \in S : \A j \in S : k <= j

\* for module in self.modules: the loop advances to the next module whose
\* can_connect accepts the network and calls its connect; when none is left
\* the outer loop takes the next network
NextModule ==
    /\ disp_pc = "mod"
    /\ IF EligibleFrom(mod_i, networks[net_i]) = {}
       THEN /\ net_i' = net_i + 1
            /\ mod_i' = 0
            /\ disp_pc' = "net"
       ELSE /\ mod_i' = Min(EligibleFrom(mod_i, networks[net_i]))
            /\ disp_pc' = "lease"
            /\ UNCHANGED net_i
    /\ last_lease' = NoLease
    /\ UNCHANGED <<poolVars, held, connected_network, scanVars, networks, mod_card, associated, result,
                   suitable_connections, monVars>>
    /\ UNCHANGED <<gwVars, auxVars>>

\* module.connect: card = self.card_manager.get_card(); without a card the
\* module returns a result that is not connected
ModuleLease ==
    /\ disp_pc = "lease"
    /\ LeaseCall(FALSE, LeaseResult(FALSE))
    /\ mod_card' = LeaseResult(FALSE)
    /\ associated' = "none"
    /\ IF LeaseResult(FALSE) = NoCard
       THEN /\ result' = Result(networks[net_i], Modules[mod_i], FALSE, "")
            /\ disp_pc' = "result"
       ELSE /\ disp_pc' = IF Modules[mod_i] = "speedtest" THEN "speed" ELSE "assoc"
            /\ UNCHANGED result
    /\ UNCHANGED <<connected_network, scanVars, networks, net_i, mod_i,
                   suitable_connections, monVars>>
    /\ UNCHANGED <<gwVars, auxVars>>

\* module.connect: card.connect(network); the value it returns is not read
ModuleAssociate(ok) ==
    /\ disp_pc = "assoc"
    /\ ConnectCall(mod_card, networks[net_i], ok)
    /\ associated' = IF ok THEN "ok" ELSE "failed"
    /\ disp_pc' = IF Modules[mod_i] = "captive_portal" THEN "portal" ELSE "speed"
    /\ last_lease' = NoLease
    /\ UNCHANGED <<config, cards, scanning_card, gen, held, scanVars, networks, net_i,
                   mod_i, mod_card, result, suitable_connections, monVars>>
    /\ UNCHANGED <<gwVars, auxVars>>

\* CaptivePortalModule.connect: portal detection and authentication
ModulePortal(outcome) ==
    /\ disp_pc = "portal"
    /\ CASE outcome \in {"no_portal", "auth_ok"} ->
              /\ disp_pc' = "speed"
              /\ UNCHANGED result
         [] outcome = "auth_failed" ->
              /\ result' = Result(networks[net_i], Modules[mod_i], FALSE, mod_card.iface)
              /\ disp_pc' = "result"
         [] outcome = "raised" ->
              /\ result' = Result(networks[net_i], Modules[mod_i], FALSE, "")
              /\ disp_pc' = "result"
    /\ last_lease' = NoLease
    /\ UNCHANGED <<poolVars, held, connected_network, scanVars, networks, net_i, mod_i,
                   mod_card, associated, suitable_connections, monVars>>
    /\ UNCHANGED <<gwVars, auxVars>>

\* module.connect: the speedtest; when it raises the except block returns a
\* result that is not connected, otherwise the result is connected
ModuleSpeedtest(ok) ==
    /\ disp_pc = "speed"
    /\ result' = IF ok THEN Result(networks[net_i], Modules[mod_i], TRUE, mod_card.iface)
                 ELSE Result(networks[net_i], Modules[mod_i], FALSE, "")
    /\ disp_pc' = "result"
    /\ last_lease' = NoLease
    /\ UNCHANGED <<poolVars, held, connected_network, scanVars, networks, net_i, mod_i,
                   mod_card, associated, suitable_connections, monVars>>
    /\ UNCHANGED <<gwVars, auxVars>>

\* a Dispatcher that adopts whatever a module returns
Adopts_Any(r) == TRUE

\* if result.connected
Adopts(r) == r.connected

\* back in scan_and_connect: a connected result is appended to the catalog,
\* any other result sends the network to the next module
HandleResult ==
    /\ disp_pc = "result"
    /\ IF Adopts(result)
       THEN /\ suitable_connections' = Append(suitable_connections, result)
            /\ disp_pc' = "watch"
            /\ UNCHANGED <<mod_i, result>>
       ELSE /\ mod_i' = mod_i + 1
            /\ disp_pc' = "mod"
            /\ result' = NoResult
            /\ UNCHANGED suitable_connections
    /\ mod_card' = NoCard
    /\ associated' = "none"
    /\ last_lease' = NoLease
    /\ mon_last' = IF Adopts(result)
                   THEN Record([mon_last EXCEPT !.appended = Append(@, result)])
                   ELSE mon_last
    /\ UNCHANGED <<poolVars, held, connected_network, scanVars, networks, net_i,
                   monVars>>
    /\ UNCHANGED monFrame

\* _get_card_for_interface(interface)
CardForInterface(interface) ==
    IF interface \in Interfaces(cards)
    THEN cards[CHOOSE k \in DOMAIN cards : cards[k].iface = interface]
    ELSE NoCard

\* an add_card that appends without looking
AddCard_Always(c) == Append(monitored_cards, c)

\* ConnectionMonitor.add_card: idempotent
AddCard(c) ==
    IF c \in Range(monitored_cards) THEN monitored_cards ELSE Append(monitored_cards, c)

\* the card of the result is handed to the monitor, then break
WatchCard ==
    /\ disp_pc = "watch"
    /\ monitored_cards' =
          IF CardForInterface(result.interface) # NoCard
          THEN AddCard(CardForInterface(result.interface)) ELSE monitored_cards
    /\ result' = NoResult
    /\ net_i' = net_i + 1
    /\ mod_i' = 0
    /\ disp_pc' = "net"
    /\ last_lease' = NoLease
    /\ UNCHANGED <<poolVars, held, connected_network, scanVars, networks, mod_card, associated,
                   suitable_connections, reconnect_attempts, mon_pc, cards_to_check,
                   mon_i, pruned>>
    /\ UNCHANGED <<gwVars, auxVars>>

(***************************************************************************)
(* ConnectionMonitor._monitor_worker and WifiManager._on_reconnect         *)
(***************************************************************************)
\* the ticks in a row on which interface i was found unhealthy, counted up to
\* one more than the Monitor's maximum
Streak(streak, kind, i) ==
    IF kind = "healthy" THEN [streak EXCEPT ![i] = 0]
    ELSE IF kind \in {"failed", "give_up"}
    THEN [streak EXCEPT ![i] = IF @ > MaxReconnectAttempts THEN @ ELSE @ + 1]
    ELSE streak

\* the record of a Monitor step on interface i that handed network to connect
MonCall(kind, i, attempts, tries, notified, network) ==
    Record([mon_last EXCEPT !.kind = kind, !.interface = i, !.attempts = attempts,
                            !.tries = tries, !.notified = notified, !.network = network,
                            !.streak = Streak(@, kind, i)])

\* the record of a Monitor step on interface i that made no connect call
MonStep(kind, i, attempts, tries, notified) ==
    MonCall(kind, i, attempts, tries, notified, NoNetwork)

\* cards_to_check = list(self._monitored_cards)
MonitorTop ==
    /\ mon_pc = "top"
    /\ cards_to_check' = monitored_cards
    /\ mon_i' = 1
    /\ mon_pc' = "check"
    /\ last_lease' = NoLease
    /\ mon_last' = MonStep("top", None, 0, 0, <<>>)
    /\ UNCHANGED <<poolVars, held, connected_network, scanVars, dispVars,
                   suitable_connections, monitored_cards, reconnect_attempts, pruned>>
    /\ UNCHANGED monFrame

\* a Monitor that gives up on the tick on which the counter would reach the
\* maximum
GivesUp_OnReaching(attempts) == attempts + 1 >= MaxReconnectAttempts

\* if attempts >= self.max_reconnect_attempts
GivesUp(attempts) == attempts >= MaxReconnectAttempts

\* a Monitor whose healthy tick leaves the counter as it is
AfterHealthy_Keep(attempts) == attempts

\* reconnect_attempts[card.interface] = 0 on a healthy tick
AfterHealthy(attempts) == 0

\* one card of the tick; healthy: is_connected() and the SSID is the expected one
MonitorCheck(healthy) ==
    /\ mon_pc = "check"
    /\ IF mon_i > Len(cards_to_check)
       THEN /\ mon_pc' = "top"
            /\ cards_to_check' = <<>>
            /\ mon_i' = 0
            /\ mon_last' = MonStep("end", None, 0, 0, <<>>)
            /\ UNCHANGED <<reconnect_attempts, connected_network>>
       ELSE LET card == cards_to_check[mon_i]
                attempts == reconnect_attempts[card.iface]
            IN  IF connected_network[card] = NoNetwork
                THEN /\ mon_i' = mon_i + 1
                     /\ mon_last' = MonStep("skip", card.iface, attempts, 0, <<>>)
                     /\ UNCHANGED <<mon_pc, cards_to_check, reconnect_attempts,
                                    connected_network>>
                ELSE IF healthy
                THEN /\ reconnect_attempts' =
                            [reconnect_attempts EXCEPT ![card.iface] = AfterHealthy(attempts)]
                     /\ mon_i' = mon_i + 1
                     /\ mon_last' = MonStep("healthy", card.iface, attempts, 0, <<>>)
                     /\ UNCHANGED <<mon_pc, cards_to_check, connected_network>>
                ELSE IF GivesUp(attempts)
                THEN /\ connected_network' = [connected_network EXCEPT ![card] = NoNetwork]
                     /\ reconnect_attempts' = [reconnect_attempts EXCEPT ![card.iface] = 0]
                     /\ mon_pc' = "notify_fail"
                     /\ mon_last' = MonStep("give_up", card.iface, attempts, 0, <<>>)
                     /\ UNCHANGED <<cards_to_check, mon_i>>
                ELSE /\ reconnect_attempts' =
                            [reconnect_attempts EXCEPT ![card.iface] = attempts + 1]
                     /\ mon_pc' = "reconnect"
                     /\ mon_last' = MonStep("failed", card.iface, attempts, 0, <<>>)
                     /\ UNCHANGED <<cards_to_check, mon_i, connected_network>>
    /\ last_lease' = NoLease
    /\ UNCHANGED <<poolVars, held, scanVars, dispVars, suitable_connections,
                   monitored_cards, pruned>>
    /\ UNCHANGED monFrame

\* the results of the association attempts one connect call goes through, in
\* order: it stops at the first success and makes at most max_retries attempts
AttemptRuns(max_retries) ==
    {run \in UNION {[1..n -> BOOLEAN] : n \in 0..max_retries} :
        /\ \A k \in 1..(Len(run) - 1) : ~run[k]
        /\ Len(run) < max_retries => (run # <<>> /\ run[Len(run)])}

\* connect returns True iff its last attempt succeeded
Connected(run) == run # <<>> /\ run[Len(run)]

\* the callbacks a notification reaches: _on_reconnect is the one registered
Notification(card, success) == <<[interface |-> card.iface, success |-> success]>>

\* a Monitor whose counter survives a successful reconnect
AfterReconnect_Keep(attempts, ok) == attempts

\* if success: reconnect_attempts[card.interface] = 0; else only a log line
AfterReconnect(attempts, ok) == IF ok THEN 0 ELSE attempts

\* success = card.reconnect(max_retries=2, base_delay=0.5), whose connect goes
\* through the attempts run; a success resets the counter and notifies the
\* callbacks, which leave the catalog alone
MonitorReconnectTry(run) ==
    /\ mon_pc = "reconnect"
    /\ LET card == cards_to_check[mon_i]
       IN  IF connected_network[card] = NoNetwork
           THEN /\ run = <<>>
                /\ mon_last' = MonStep("reconnect_failed", card.iface,
                                       reconnect_attempts[card.iface], 0, <<>>)
                /\ UNCHANGED <<in_use, connected_network, reconnect_attempts>>
           ELSE /\ run \in AttemptRuns(ReconnectMaxRetries)
                /\ ConnectCall(card, connected_network[card], Connected(run))
                /\ reconnect_attempts' =
                      [reconnect_attempts EXCEPT
                          ![card.iface] = AfterReconnect(@, Connected(run))]
                /\ mon_last' =
                      IF Connected(run)
                      THEN MonCall("reconnect_ok", card.iface,
                                   reconnect_attempts[card.iface], Len(run),
                                   Notification(card, TRUE), connected_network[card])
                      ELSE MonCall("reconnect_failed", card.iface,
                                   reconnect_attempts[card.iface], Len(run), <<>>,
                                   connected_network[card])
    /\ mon_i' = mon_i + 1
    /\ mon_pc' = "check"
    /\ last_lease' = NoLease
    /\ UNCHANGED <<config, cards, scanning_card, gen, held, scanVars, dispVars,
                   suitable_connections, monitored_cards, cards_to_check, pruned>>
    /\ UNCHANGED monFrame

\* the reconnect of a failed tick, by what it returns
MonitorReconnect(ok) ==
    \E run \in {<<>>} \cup AttemptRuns(ReconnectMaxRetries) :
        /\ Connected(run) = ok
        /\ MonitorReconnectTry(run)

\* the catalog without the entries of one interface
WithoutInterface(catalog, interface) ==
    SelectSeq(catalog, LAMBDA conn : conn.interface # interface)

\* _on_reconnect(card, success=False): the list comprehension is evaluated ...
OnReconnectFilter ==
    /\ mon_pc = "notify_fail"
    /\ pruned' = WithoutInterface(suitable_connections, cards_to_check[mon_i].iface)
    /\ mon_pc' = "prune_write"
    /\ last_lease' = NoLease
    /\ mon_last' = MonStep("notify_failed", cards_to_check[mon_i].iface, 0, 0,
                           Notification(cards_to_check[mon_i], FALSE))
    /\ UNCHANGED <<poolVars, held, connected_network, scanVars, dispVars,
                   suitable_connections, monitored_cards, reconnect_attempts,
                   cards_to_check, mon_i>>
    /\ UNCHANGED monFrame

\* ... and then assigned to self.suitable_connections
OnReconnectAssign ==
    /\ mon_pc = "prune_write"
    /\ suitable_connections' = pruned
    /\ pruned' = <<>>
    /\ mon_i' = mon_i + 1
    /\ mon_pc' = "check"
    /\ last_lease' = NoLease
    /\ mon_last' = Record([mon_last EXCEPT !.kind = "pruned",
                                           !.given_up = @ \cup {cards_to_check[mon_i].iface}])
    /\ UNCHANGED <<poolVars, held, connected_network, scanVars, dispVars,
                   monitored_cards, reconnect_attempts, cards_to_check>>
    /\ UNCHANGED monFrame

(***************************************************************************)
(* The engine: one enumeration at start-up, then the Scanner, the          *)
(* Dispatcher and the Monitor run concurrently.  The source never calls    *)
(* scan_for_cards again once the workers run.                              *)
(***************************************************************************)
\* host interface lists and configurations the engine is started with
EngineHostLists ==
    {<<"wlan0">>, <<"eth0", "wlan0", "wlan1">>}
EngineConfigs == {c \in Configs : c.excluded = {} /\ c.preferred = <<>>}
\* a scan interface is configured only on the single-card host
EngineStarts ==
    {hc \in EngineHostLists \X EngineConfigs : hc[2].scan_interface = None \/ Len(hc[1]) = 1}

Init ==
    /\ gen = 1
    /\ \E hc \in EngineStarts :
          /\ config = hc[2]
          /\ cards = NewCards(hc[1], {}, config, 1)
          /\ scanning_card = DesignateScanningCard(NoCard, cards, config)
    /\ in_use = {}
    /\ held = [c \in AllCards |-> 0]
    /\ last_lease = NoLease
    /\ registry = NoRegistry
    /\ mon_last = NotRecorded
    /\ InitEngineVars
    /\ InitIdleGateway

Scanner ==
    \/ start_scan
    \/ stop_scan_flag
    \/ stop_scan_join
    \/ ScanLoopTop
    \/ \E nets \in Snapshots : ScanPublish(nets)
    \/ ScanRaise
    \/ ScanFinally

Dispatcher ==
    \/ GetNextScan
    \/ NextNetwork
    \/ NextModule
    \/ ModuleLease
    \/ \E ok \in BOOLEAN : ModuleAssociate(ok)
    \/ \E outcome \in {"no_portal", "auth_ok", "auth_failed", "raised"} : ModulePortal(outcome)
    \/ \E ok \in BOOLEAN : ModuleSpeedtest(ok)
    \/ HandleResult
    \/ WatchCard

Monitor ==
    \/ MonitorTop
    \/ \E healthy \in BOOLEAN : MonitorCheck(healthy)
    \/ \E ok \in BOOLEAN : MonitorReconnect(ok)
    \/ OnReconnectFilter
    \/ OnReconnectAssign

Next == Scanner \/ Dispatcher \/ Monitor

Spec == Init /\ [][Next]_vars

(***************************************************************************)
(* The Scanner and the Dispatcher alone, the queue between them followed   *)
(* to a longer backlog.                                                    *)
(***************************************************************************)
ChannelScanner ==
    \/ start_scan
    \/ ScanLoopTop
    \/ \E nets \in Snapshots : ScanPublishUpTo(nets, MaxBacklog)
    \/ ScanRaise
    \/ ScanFinally

NextChannel == ChannelScanner \/ Dispatcher

SpecChannel == Init /\ [][NextChannel]_vars

(***************************************************************************)
(* WifiCard.connect and WifiCard.reconnect on one card, attempt by attempt. *)
(* Delays are in milliseconds.                                             *)
(***************************************************************************)
\* connect(network, password=None, max_retries=3, base_delay=1.0)
DefaultMaxRetries == 3
DefaultBaseDelay == 1000
\* the largest max_retries a caller passes here
MaxRetriesArg == 4
BaseDelays == {500, DefaultBaseDelay}
Passwords == {None, "secret"}
\* how one association attempt ends: nmcli returns 0, nmcli returns non-zero,
\* or an exception (TimeoutExpired, CalledProcessError, any other) is caught
AttemptOutcomes == {"ok", "refused", "raised"}

\* a loop that makes one attempt more than max_retries
Retry_Inclusive(attempt, max_retries) == attempt <= max_retries

\* while attempt < max_retries / if attempt < max_retries
Retry(attempt, max_retries) == attempt < max_retries

Pow2(n) == IF n <= 0 THEN 1 ELSE IF n = 1 THEN 2 ELSE IF n = 2 THEN 4 ELSE 8

\* delay = base_delay * (2 ** (attempt - 1))
BackoffDelay(base_delay, attempt) == base_delay * Pow2(attempt - 1)

connectFrame ==
    <<poolVars, engineVars, held, last_lease, gwVars, pureVars, registry, lifeVars, mon_last>>

\* connect is entered: attempt = 0, last_error = None
ConnectEnter(network, password, max_retries, base_delay) ==
    /\ connect_call.pc \in {"idle", "returned"}
    /\ connect_call' =
          [pc |-> "loop", network |-> network, password |-> password,
           max_retries |-> max_retries, base_delay |-> base_delay, attempt |-> 0,
           outcomes |-> <<>>, slept |-> <<>>, returned |-> FALSE, before |-> wifi_card]
    /\ UNCHANGED wifi_card
    /\ UNCHANGED connectFrame

\* reconnect(max_retries, base_delay): False without a cached network, else
\* connect(self._connected_network, password=self._connection_password, ...)
ReconnectEnter(max_retries, base_delay) ==
    /\ connect_call.pc \in {"idle", "returned"}
    /\ IF wifi_card.connected_network = NoNetwork
       THEN /\ connect_call' =
                  [NoConnectCall EXCEPT !.pc = "returned", !.max_retries = max_retries,
                                        !.base_delay = base_delay, !.before = wifi_card]
            /\ UNCHANGED wifi_card
            /\ UNCHANGED connectFrame
       ELSE ConnectEnter(wifi_card.connected_network, wifi_card.connection_password,
                         max_retries, base_delay)

\* the loop test; after the loop: self.in_use = False, return False
ConnectLoop ==
    /\ connect_call.pc = "loop"
    /\ IF Retry(connect_call.attempt, connect_call.max_retries)
       THEN /\ connect_call' = [connect_call EXCEPT !.attempt = @ + 1, !.pc = "try"]
            /\ UNCHANGED wifi_card
       ELSE /\ connect_call' = [connect_call EXCEPT !.pc = "returned", !.returned = FALSE]
            /\ wifi_card' = [wifi_card EXCEPT !.in_use = FALSE]
    /\ UNCHANGED connectFrame

\* one attempt: link up, disconnect, nmcli connect; a success marks the card in
\* use, caches the network and the password and returns True
ConnectAttempt(outcome) ==
    /\ connect_call.pc = "try"
    /\ IF outcome = "ok"
       THEN /\ wifi_card' = [in_use |-> TRUE, connected_network |-> connect_call.network,
                             connection_password |-> connect_call.password]
            /\ connect_call' = [connect_call EXCEPT !.pc = "returned", !.returned = TRUE,
                                                    !.outcomes = Append(@, outcome)]
       ELSE /\ connect_call' = [connect_call EXCEPT !.pc = "backoff",
                                                    !.outcomes = Append(@, outcome)]
            /\ UNCHANGED wifi_card
    /\ UNCHANGED connectFrame

\* after a failed attempt: sleep when another attempt follows
ConnectBackoff ==
    /\ connect_call.pc = "backoff"
    /\ connect_call' =
          [connect_call EXCEPT
              !.pc = "loop",
              !.slept = IF Retry(connect_call.attempt, connect_call.max_retries)
                        THEN Append(@, BackoffDelay(connect_call.base_delay,
                                                    connect_call.attempt))
                        ELSE @]
    /\ UNCHANGED wifi_card
    /\ UNCHANGED connectFrame

\* disconnect(): nmcli device disconnect; a zero return code clears in_use and
\* the cached network and password; the connect call made before is forgotten
Disconnect(ok) ==
    /\ connect_call.pc \in {"idle", "returned"}
    /\ wifi_card' = IF ok THEN NewWifiCard ELSE wifi_card
    /\ connect_call' = NoConnectCall
    /\ UNCHANGED connectFrame

ConnectCalls ==
    \/ \E network \in {AP_Cafe, AP_Home}, password \in Passwords,
          max_retries \in 0..MaxRetriesArg, base_delay \in BaseDelays :
          ConnectEnter(network, password, max_retries, base_delay)
    \/ \E max_retries \in {ReconnectMaxRetries, DefaultMaxRetries},
          base_delay \in BaseDelays : ReconnectEnter(max_retries, base_delay)
    \/ \E ok \in BOOLEAN : Disconnect(ok)

ConnectSteps ==
    \/ ConnectLoop
    \/ \E outcome \in AttemptOutcomes : ConnectAttempt(outcome)
    \/ ConnectBackoff

NextConnect == ConnectCalls \/ ConnectSteps

\* the card on its own: the engine does not run
InitConnect ==
    /\ InitPool
    /\ cards = <<>>
    /\ config = [excluded |-> {}, preferred |-> <<>>, scan_interface |-> None]

SpecConnect == InitConnect /\ [][NextConnect]_vars

(***************************************************************************)
(* The Monitor and the Dispatcher on a host with two connection radios,    *)
(* with their catalog-related steps recorded.  The engine is under way:    *)
(* the Scanner sleeps between two passes, the Dispatcher is working        *)
(* through the snapshot <<Cafe, Cafe, Home>> and has appended the          *)
(* connection of wlan1 to Cafe, which the Monitor watches.                 *)
(***************************************************************************)
\* nothing was recorded yet
NoStep == [NotRecorded EXCEPT !.kind = "none"]
Wlan(name) == [iface |-> name, gen |-> 1]
Conn_Cafe1 ==
    [connected |-> TRUE, interface |-> "wlan1", connection_method |-> "captive_portal",
     network |-> AP_Cafe]

InitMonitor ==
    /\ gen = 1
    /\ config = [excluded |-> {}, preferred |-> <<>>, scan_interface |-> None]
    /\ cards = NewCards(<<"wlan0", "wlan1", "wlan2">>, {}, config, 1)
    /\ scanning_card = DesignateScanningCard(NoCard, cards, config)
    /\ in_use = {Wlan("wlan0"), Wlan("wlan1")}
    /\ held = [c \in AllCards |-> IF c \in {Wlan("wlan0"), Wlan("wlan1")} THEN 1 ELSE 0]
    /\ last_lease = NoLease
    /\ registry = NoRegistry
    /\ mon_last = NoStep
    /\ connected_network = [c \in AllCards |-> IF c = Wlan("wlan1") THEN AP_Cafe ELSE NoNetwork]
    /\ scanning = TRUE /\ scan_ctl = "running" /\ scan_pc = "sleep"
    /\ scan_local = Wlan("wlan0")
    /\ scan_results = <<AP_Cafe, AP_Cafe, AP_Home>> /\ scan_queue = <<>>
    /\ disp_pc = "net" /\ networks = <<AP_Cafe, AP_Cafe, AP_Home>> /\ net_i = 2 /\ mod_i = 0
    /\ mod_card = NoCard /\ result = NoResult /\ associated = "none"
    /\ suitable_connections = <<Conn_Cafe1>>
    /\ monitored_cards = <<Wlan("wlan1")>>
    /\ reconnect_attempts = [i \in WirelessNames |-> 0]
    /\ mon_pc = "top" /\ cards_to_check = <<>> /\ mon_i = 0 /\ pruned = <<>>
    /\ InitIdleGateway

\* the rest of the Dispatcher's pass over its snapshot
DispatcherPass ==
    \/ NextNetwork
    \/ NextModule
    \/ ModuleLease
    \/ \E ok \in BOOLEAN : ModuleAssociate(ok)
    \/ \E outcome \in {"no_portal", "auth_ok", "auth_failed", "raised"} : ModulePortal(outcome)
    \/ \E ok \in BOOLEAN : ModuleSpeedtest(ok)
    \/ HandleResult
    \/ WatchCard

NextMonitor == DispatcherPass \/ Monitor

SpecMonitor == InitMonitor /\ [][NextMonitor]_vars

(***************************************************************************)
(* Scores and ranking.  Speeds are integers in hundredths of a Mbps,       *)
(* signal is a percentage, ping is in whole milliseconds; a score is an    *)
(* integer in hundredths of a point and the weighted sum is kept in        *)
(* thousandths.                                                            *)
(***************************************************************************)
MinOf(a, b) == IF a <= b THEN a ELSE b
MaxOf(a, b) == IF a >= b THEN a ELSE b

\* total_score of calculate_score, in thousandths of a point:
\* download_score * 0.4 + signal_score * 0.3 + upload_score * 0.2 + ping_score * 0.1
total_score(conn) ==
    4 * MinOf(10000, conn.download_speed)
      + 300 * conn.network.signal_strength
      + 2 * MinOf(10000, 2 * conn.upload_speed)
      + MaxOf(0, 10000 - 50 * conn.ping)

\* a score cut to two decimals instead of rounded
round2_Truncating(total) == total \div 10

\* round(total_score, 2), from thousandths to hundredths.  With these units
\* the thousandths digit of a total is even, so no total lies half way
\* between two results.
round2(total) == (total + 5) \div 10

\* ConnectionResult.calculate_score, in hundredths of a point
calculate_score(conn) == round2(total_score(conn))

\* a ranking that puts an entry before the entries that score the same, later
\* arrivals first
InsertByScore_LaterFirst(conn, sorted) ==
    LET before == {k \in DOMAIN sorted : calculate_score(sorted[k]) > calculate_score(conn)}
        n == Cardinality(before)
    IN  SubSeq(sorted, 1, n) \o <<conn>> \o SubSeq(sorted, n + 1, Len(sorted))

\* sorted(..., reverse=True) is stable: an entry goes behind the entries that
\* score at least as much; sorted holds the entries already placed, best first
InsertByScore(conn, sorted) ==
    LET before == {k \in DOMAIN sorted : calculate_score(sorted[k]) >= calculate_score(conn)}
        n == Cardinality(before)
    IN  SubSeq(sorted, 1, n) \o <<conn>> \o SubSeq(sorted, n + 1, Len(sorted))

RECURSIVE SortByScore(_)
SortByScore(catalog) ==
    IF catalog = <<>> THEN <<>>
    ELSE InsertByScore(Last(catalog), SortByScore(Front(catalog)))

\* WifiManager.get_sorted_connections
get_sorted_connections == SortByScore(suitable_connections)

\* list.index(x): the first position that holds an equal entry, counted from 0;
\* -1 stands for ValueError
IndexOf(catalog, conn) ==
    IF \E k \in DOMAIN catalog : catalog[k] = conn
    THEN (CHOOSE k \in DOMAIN catalog :
             catalog[k] = conn /\ \A j \in 1..(k - 1) : catalog[j] # conn) - 1
    ELSE 0 - 1

\* a measured connection: signal 60, upload 10 Mbps, ping 50 ms
Connection(ssid, bssid, interface, download_speed) ==
    [network |-> [ssid |-> ssid, bssid |-> bssid, is_open |-> TRUE,
                  encryption_type |-> "", signal_strength |-> 60],
     download_speed |-> download_speed, upload_speed |-> 1000, ping |-> 50,
     connected |-> TRUE, connection_method |-> "open", interface |-> interface]

\* scores 39.50, 39.50, 49.50 (exactly 10 more) and 53.50
Conn_A == Connection("Cafe", "00:11", "wlan1", 2500)
Conn_A2 == Connection("Hotel", "00:33", "wlan2", 2500)
Conn_B == Connection("Home", "00:22", "wlan2", 5000)
Conn_C == Connection("Depot", "00:44", "wlan1", 6000)

\* the catalogs the gateway side is run with
Catalogs ==
    {<<Conn_A, Conn_B>>, <<Conn_A, Conn_A2>>, <<Conn_B, Conn_C>>}

(***************************************************************************)
(* NetworkBridge.  Its methods act on the bridge object and on the host;   *)
(* both are carried in one record w, so that a method is a function from   *)
(* the world before the call to the world after it.                        *)
(***************************************************************************)
World ==
    [bridges |-> bridges, ip_forward |-> ip_forward, iptables |-> iptables,
     eth_address |-> eth_address, dhcp_servers |-> dhcp_servers]

\* the rules setup_nat appends for a wifi interface
NatRules(wifi_interface) ==
    {<<"POSTROUTING", "MASQUERADE", wifi_interface>>,
     <<"FORWARD", "ACCEPT", wifi_interface>>,
     <<"FORWARD", "RELATED,ESTABLISHED", wifi_interface>>}

\* a rule the host's administrator installed
HostRule == <<"INPUT", "ACCEPT", "lo">>

\* _cleanup_dhcp: stop the server if there is one, delete the address if this
\* bridge configured it
cleanup_dhcp(w, b) ==
    [w EXCEPT !.dhcp_servers = IF w.bridges[b].dhcp_server THEN @ \ {b} ELSE @,
              !.eth_address = IF w.bridges[b].ip_configured THEN FALSE ELSE @,
              !.bridges[b].dhcp_server = FALSE,
              !.bridges[b].ip_configured = FALSE]

\* a cleanup that flushes the tables and leaves forwarding as it is
cleanup_nat_NoRestore(w, b) ==
    [w EXCEPT !.iptables = {}, !.bridges[b].nat_configured = FALSE]

\* _cleanup_nat: flush both tables and write the saved forwarding value back
\* (the file took the enabling write, and takes this one)
cleanup_nat(w, b) ==
    [w EXCEPT !.iptables = {},
              !.ip_forward = IF w.bridges[b].original_ip_forward # None
                             THEN w.bridges[b].original_ip_forward ELSE @,
              !.bridges[b].nat_configured = FALSE]

\* NetworkBridge.stop
stop(w, b) ==
    [cleanup_nat(cleanup_dhcp(w, b), b) EXCEPT !.bridges[b].is_active = FALSE]

\* the outcomes of setup_nat: the write to ip_forward is refused, an iptables
\* command fails after forwarding was enabled, or all commands succeed
NatOutcomes == {"write_fails", "rule_fails", "ok"}

\* setup_nat: save forwarding ('0' is assumed when it cannot be read), enable
\* it, flush the tables, append the rules; after the write any failure runs
\* _cleanup_nat
setup_nat(w, b, read_ok, outcome) ==
    LET saved == [w EXCEPT !.bridges[b].original_ip_forward =
                               IF read_ok THEN w.ip_forward ELSE "0"]
        enabled == [saved EXCEPT !.ip_forward = "1", !.iptables = {}]
    IN  CASE outcome = "write_fails" -> saved
          [] outcome = "rule_fails" -> cleanup_nat(enabled, b)
          [] outcome = "ok" ->
                [enabled EXCEPT !.iptables = NatRules(w.bridges[b].wifi_interface),
                                !.bridges[b].nat_configured = TRUE]

\* the outcomes of setup_dhcp: the address cannot be added, the link cannot be
\* brought up, dnsmasq fails to start, or all succeed
DhcpOutcomes == {"addr_fails", "link_fails", "dhcp_fails", "ok"}

\* setup_dhcp: add the address, bring the link up, start dnsmasq; a failure
\* after the address was added runs _cleanup_dhcp
setup_dhcp(w, b, outcome) ==
    LET addressed == [w EXCEPT !.eth_address = TRUE, !.bridges[b].ip_configured = TRUE]
    IN  CASE outcome = "addr_fails" -> w
          [] outcome \in {"link_fails", "dhcp_fails"} -> cleanup_dhcp(addressed, b)
          [] outcome = "ok" ->
                [addressed EXCEPT !.dhcp_servers = @ \cup {b},
                                  !.bridges[b].dhcp_server = TRUE]

\* the world is written back to the variables
SetWorld(w) ==
    /\ bridges' = w.bridges
    /\ ip_forward' = w.ip_forward
    /\ iptables' = w.iptables
    /\ eth_address' = w.eth_address
    /\ dhcp_servers' = w.dhcp_servers

(***************************************************************************)
(* WifiManager.use_connection, run by the calling thread t in four steps:  *)
(* entry (index check, stop of the existing bridge), construction of the   *)
(* new bridge, and the two halves of NetworkBridge.start().                *)
(***************************************************************************)
\* what the gateway side leaves alone
gwFrame ==
    <<poolVars, held, last_lease, connected_network, scanVars, dispVars, monVars, auxVars>>

\* the ids no bridge was constructed with yet
FreeBridgeIds == {b \in BridgeIds : bridges[b] = NoBridge}

\* if connection_index >= len(...): return False; if self.active_bridge: stop()
UseConnectionEnter(t) ==
    /\ uc[t].pc = "enter"
    /\ IF uc[t].index >= Len(suitable_connections)
       THEN /\ uc' = [uc EXCEPT ![t] = IdleCall]
            /\ UNCHANGED <<bridges, hostVars>>
       ELSE /\ uc' = [uc EXCEPT ![t].pc = "read"]
            /\ IF active_bridge # 0
               THEN SetWorld(stop(World, active_bridge))
               ELSE UNCHANGED <<bridges, hostVars>>
    /\ last_tick' = NoTick
    /\ UNCHANGED <<active_bridge, current_bridge, sel_enabled, min_score_improvement,
                   suitable_connections, gwFrame>>

\* connection = self.suitable_connections[connection_index] (IndexError when the
\* list has shrunk meanwhile); without an ethernet interface return False;
\* self.active_bridge = NetworkBridge(...)
UseConnectionCreate(t, has_eth) ==
    /\ uc[t].pc = "read"
    /\ IF uc[t].index >= Len(suitable_connections) \/ ~has_eth
       THEN /\ uc' = [uc EXCEPT ![t] = IdleCall]
            /\ UNCHANGED <<active_bridge, bridges>>
       ELSE /\ FreeBridgeIds # {}
            /\ LET b == Min(FreeBridgeIds)
                   connection == suitable_connections[uc[t].index + 1]
               IN  /\ active_bridge' = b
                   /\ bridges' = [bridges EXCEPT ![b] = NewBridge(connection.interface)]
                   /\ uc' = [uc EXCEPT ![t].pc = "nat", ![t].connection = connection]
    /\ last_tick' = NoTick
    /\ UNCHANGED <<current_bridge, hostVars, sel_enabled, min_score_improvement,
                   suitable_connections, gwFrame>>

\* self.active_bridge.start(), first half: the attribute is read again, and
\* setup_nat runs on the bridge it holds now
UseConnectionNat(t, read_ok, outcome) ==
    /\ uc[t].pc = "nat"
    /\ LET b == active_bridge
           entered == [World EXCEPT !.bridges[b].entry_ip_forward = ip_forward,
                                    !.bridges[b].entry_iptables = iptables]
       IN  /\ SetWorld(setup_nat(entered, b, read_ok, outcome))
           /\ uc' = IF outcome = "ok"
                    THEN [uc EXCEPT ![t].pc = "dhcp", ![t].bridge = b]
                    ELSE [uc EXCEPT ![t] = IdleCall]
    /\ last_tick' = NoTick
    /\ UNCHANGED <<active_bridge, current_bridge, sel_enabled, min_score_improvement,
                   suitable_connections, gwFrame>>

\* start(), second half: setup_dhcp; on failure _cleanup_nat and return False,
\* on success is_active = True and use_connection records the binding
UseConnectionDhcp(t, outcome) ==
    /\ uc[t].pc = "dhcp"
    /\ LET b == uc[t].bridge
           after == setup_dhcp(World, b, outcome)
       IN  IF outcome = "ok"
           THEN /\ SetWorld([after EXCEPT !.bridges[b].is_active = TRUE])
                /\ current_bridge' =
                      [wifi_interface |-> uc[t].connection.interface,
                       ethernet_interface |-> "eth0",
                       ssid |-> uc[t].connection.network.ssid]
           ELSE /\ SetWorld(cleanup_nat(after, b))
                /\ UNCHANGED current_bridge
    /\ uc' = [uc EXCEPT ![t] = IdleCall]
    /\ last_tick' = NoTick
    /\ UNCHANGED <<active_bridge, sel_enabled, min_score_improvement,
                   suitable_connections, gwFrame>>

\* POST /api/use_connection/<index>
HttpUseConnection(index) ==
    /\ uc["http"].pc = "idle"
    /\ FreeBridgeIds # {}
    /\ uc' = [uc EXCEPT !["http"] = [IdleCall EXCEPT !.pc = "enter", !.index = index]]
    /\ last_tick' = NoTick
    /\ UNCHANGED <<active_bridge, bridges, current_bridge, hostVars, sel_enabled,
                   min_score_improvement, suitable_connections, gwFrame>>

\* POST /api/stop_connection: WifiManager.stop_current_connection
stop_current_connection ==
    /\ IF active_bridge # 0
       THEN /\ SetWorld(stop(World, active_bridge))
            /\ current_bridge' = NoBinding
       ELSE UNCHANGED <<bridges, hostVars, current_bridge>>
    /\ last_tick' = NoTick
    /\ UNCHANGED <<active_bridge, sel_enabled, min_score_improvement, uc,
                   suitable_connections, gwFrame>>

(***************************************************************************)
(* AutoSelector                                                            *)
(***************************************************************************)
\* the positions of the catalog entries with the binding's SSID and interface
CurrentMatches ==
    {k \in DOMAIN suitable_connections :
        /\ suitable_connections[k].network.ssid = current_bridge.ssid
        /\ suitable_connections[k].interface = current_bridge.wifi_interface}

\* current_connection: the first of them
CurrentConnection == suitable_connections[Min(CurrentMatches)]

\* best_connection = sorted_connections[0]
BestConnection == get_sorted_connections[1]

\* a selector that switches only for a strictly larger improvement
ShouldSwitch_Strict(best_score, current_score) ==
    best_score - current_score > min_score_improvement

\* if score_improvement >= self.min_score_improvement
ShouldSwitch(best_score, current_score) ==
    best_score - current_score >= min_score_improvement

\* a selection that asks for the first entry without looking whether there is one
select_best_connection_NoEmptyCheck ==
    IF suitable_connections = <<>> THEN 0
    ELSE IndexOf(suitable_connections, BestConnection)

\* _select_best_connection: the index it hands to use_connection, -1 when it
\* makes no call (if not sorted_connections: return)
select_best_connection ==
    IF suitable_connections = <<>> THEN 0 - 1
    ELSE IndexOf(suitable_connections, BestConnection)

\* the index _evaluate_and_switch hands to use_connection, -1 when it makes no
\* call: without a binding in the status it is _select_best_connection's; with
\* one, the best entry is taken when it improves on the current one enough
BindRequest ==
    IF current_bridge = NoBinding
    THEN select_best_connection
    ELSE IF CurrentMatches = {} THEN 0 - 1
         ELSE IF ShouldSwitch(calculate_score(BestConnection),
                              calculate_score(CurrentConnection))
              THEN IndexOf(suitable_connections, BestConnection)
              ELSE 0 - 1

\* _evaluate_and_switch run by thread t, up to its call of use_connection
Evaluate(t, kind) ==
    /\ uc[t].pc = "idle"
    /\ last_tick' = [kind |-> kind, evaluated |-> TRUE, requested |-> BindRequest >= 0,
                     index |-> BindRequest]
    /\ IF BindRequest >= 0
       THEN /\ FreeBridgeIds # {}
            /\ uc' = [uc EXCEPT ![t] = [IdleCall EXCEPT !.pc = "enter",
                                                        !.index = BindRequest]]
       ELSE UNCHANGED uc
    /\ UNCHANGED <<active_bridge, bridges, current_bridge, hostVars, sel_enabled,
                   min_score_improvement, suitable_connections, gwFrame>>

\* a worker that evaluates whether enabled or not
WorkerEvaluates_Always == TRUE

\* _selector_worker: if self._enabled: self._evaluate_and_switch()
WorkerEvaluates == sel_enabled

\* one pass of the worker's loop
selector_worker ==
    IF WorkerEvaluates
    THEN Evaluate("selector", "worker")
    ELSE /\ uc["selector"].pc = "idle"
         /\ last_tick' = [NoTick EXCEPT !.kind = "worker"]
         /\ UNCHANGED <<active_bridge, bridges, current_bridge, hostVars, sel_enabled,
                        min_score_improvement, uc, suitable_connections, gwFrame>>

\* _evaluate_and_switch called directly, from a thread other than the worker
evaluate_and_switch == Evaluate("http", "direct")

\* enable_auto_selection / disable_auto_selection
set_auto_selection(enabled) ==
    /\ sel_enabled' = enabled
    /\ last_tick' = NoTick
    /\ UNCHANGED <<active_bridge, bridges, current_bridge, hostVars,
                   min_score_improvement, uc, suitable_connections, gwFrame>>

\* the Monitor gives up on interface: _on_reconnect(card, success=False)
on_reconnect_failure(interface) ==
    /\ \E k \in DOMAIN suitable_connections : suitable_connections[k].interface = interface
    /\ suitable_connections' = WithoutInterface(suitable_connections, interface)
    /\ last_tick' = NoTick
    /\ UNCHANGED <<active_bridge, bridges, current_bridge, hostVars, sel_enabled,
                   min_score_improvement, uc, gwFrame>>

(***************************************************************************)
(* The gateway side on its own: a catalog the Dispatcher has filled, the   *)
(* selector worker, HTTP commands, and the Monitor's prune.                *)
(***************************************************************************)
\* the host before the daemon touches it: forwarding off and no rules, or
\* forwarding on and a rule of the administrator's
Hosts == {[ip_forward |-> "0", iptables |-> {}],
          [ip_forward |-> "1", iptables |-> {HostRule}]}

\* min_score_improvement as configured: the default, or 0
MinScoreImprovements == {DefaultMinScoreImprovement, 0}

InitGateway ==
    /\ config \in EngineConfigs /\ config.scan_interface = None
    /\ gen = 1
    /\ cards = NewCards(<<"eth0", "wlan0", "wlan1", "wlan2">>, {}, config, 1)
    /\ scanning_card = DesignateScanningCard(NoCard, cards, config)
    /\ in_use = {}
    /\ held = [c \in AllCards |-> 0]
    /\ last_lease = NoLease
    /\ registry = NoRegistry
    /\ mon_last = NotRecorded
    /\ connected_network = [c \in AllCards |-> NoNetwork]
    /\ scanning = FALSE /\ scan_ctl = "stopped" /\ scan_pc = "idle"
    /\ scan_local = NoCard /\ scan_results = <<>> /\ scan_queue = <<>>
    /\ disp_pc = "wait" /\ networks = <<>> /\ net_i = 0 /\ mod_i = 0
    /\ mod_card = NoCard /\ result = NoResult /\ associated = "none"
    /\ monitored_cards = <<>>
    /\ reconnect_attempts = [i \in WirelessNames |-> 0]
    /\ mon_pc = "top" /\ cards_to_check = <<>> /\ mon_i = 0 /\ pruned = <<>>
    /\ suitable_connections \in Catalogs
    /\ InitGatewayVars
    /\ \E host \in Hosts : ip_forward = host.ip_forward /\ iptables = host.iptables
    /\ min_score_improvement \in MinScoreImprovements

UseConnection ==
    \E t \in Callers :
        \/ UseConnectionEnter(t)
        \/ \E has_eth \in BOOLEAN : UseConnectionCreate(t, has_eth)
        \/ \E read_ok \in BOOLEAN, outcome \in NatOutcomes :
              UseConnectionNat(t, read_ok, outcome)
        \/ \E outcome \in DhcpOutcomes : UseConnectionDhcp(t, outcome)

Http ==
    \/ \E index \in 0..2 : HttpUseConnection(index)
    \/ stop_current_connection
    \/ \E enabled \in BOOLEAN : set_auto_selection(enabled)

Selector == selector_worker \/ evaluate_and_switch

MonitorPrune == \E interface \in {"wlan1", "wlan2"} : on_reconnect_failure(interface)

NextGateway == UseConnection \/ Http \/ Selector \/ MonitorPrune

SpecGateway == InitGateway /\ [][NextGateway]_vars

(***************************************************************************)
(* calculate_score as a function of the measurements: a connection is      *)
(* measured, then asked for its score.                                     *)
(***************************************************************************)
\* download and upload rates in hundredths of a Mbps: nothing, 0.01, 0.02,
\* 10, 25, 50 and 100 Mbps, and 150 Mbps (beyond both reference speeds)
Rates == {0, 1, 2, 1000, 2500, 5000, 10000, 15000}
\* network.signal_strength
Signals == {0, 60, 100}
\* ping in milliseconds
Pings == {0, 50, 200, 300}

\* a ConnectionResult with these measurements
Measurement(download_speed, upload_speed, signal_strength, ping) ==
    [network |-> [ssid |-> "Cafe", bssid |-> "00:11", is_open |-> TRUE,
                  encryption_type |-> "", signal_strength |-> signal_strength],
     download_speed |-> download_speed, upload_speed |-> upload_speed, ping |-> ping,
     connected |-> TRUE, connection_method |-> "open", interface |-> "wlan1"]

Measurements ==
    {Measurement(d, u, s, p) : d \in Rates, u \in Rates, s \in Signals, p \in Pings}

InitScore ==
    /\ InitPool
    /\ cards = <<>>

\* a module's speedtest produced a ConnectionResult
Measure ==
    /\ \E m \in Measurements : measured' = m
    /\ score' = NoScore
    /\ UNCHANGED <<poolVars, engineVars, held, last_lease, gwVars, reading, signal,
                   registry, lifeVars, callVars>>

\* conn.calculate_score()
Score ==
    /\ measured \in Measurements
    /\ score' = [returned |-> TRUE, value |-> calculate_score(measured)]
    /\ UNCHANGED <<poolVars, engineVars, held, last_lease, gwVars, measured, reading,
                   signal, registry, lifeVars, callVars>>

NextScore == Measure \/ Score

SpecScore == InitScore /\ [][NextScore]_vars

(***************************************************************************)
(* WifiCard.scan's parsing of the signal field of an iwlist cell.          *)
(***************************************************************************)
\* the scales drivers report a quality on
Denominators == {3, 50, 70, 100}
\* the dBm levels read: from -MaxAttenuation to -MinAttenuation
MinAttenuation == 40
MaxAttenuation == 110

\* "Quality=x/N ...", "Signal level=x/N", "Quality=x ..." and
\* "Signal level=d dBm" (d in field x)
Readings ==
    {[form |-> f, x |-> q[1], n |-> q[2]] :
        f \in {"quality", "level_quality"},
        q \in {p \in (0..100) \X Denominators : p[1] <= p[2]}}
    \cup {[form |-> "quality_plain", x |-> x, n |-> 0] : x \in {0, 51, 100}}
    \cup {[form |-> "dbm", x |-> 0 - a, n |-> 0] : a \in MinAttenuation..MaxAttenuation}

\* the quotients x/n, n at most 100, for which the double (x / n) * 100 comes
\* out just below the whole number 100x/n
FloatShort == {<<29, 50>>, <<29, 100>>, <<57, 100>>, <<58, 100>>}

\* int((int(numerator) / int(denominator)) * 100): float division, then cut
\* towards zero
TruncatedPercent(x, n) ==
    ((100 * x) \div n) - (IF <<x, n>> \in FloatShort THEN 1 ELSE 0)

\* the signal_strength scan() stores for a reading
parse_signal(r) ==
    CASE r.form \in {"quality", "level_quality"} -> TruncatedPercent(r.x, r.n)
      [] r.form = "quality_plain" -> r.x
      [] r.form = "dbm" -> MinOf(100, MaxOf(0, (r.x + 100) * 2))

\* the next line of the iwlist output holds a signal field
ReadCell ==
    /\ \E r \in Readings : reading' = r
    /\ signal' = NoSignal
    /\ UNCHANGED <<poolVars, engineVars, held, last_lease, gwVars, measured, score,
                   registry, lifeVars, callVars>>

\* scan() parses it into current_network.signal_strength
ParseSignal ==
    /\ reading \in Readings
    /\ signal' = [stored |-> TRUE, value |-> parse_signal(reading)]
    /\ UNCHANGED <<poolVars, engineVars, held, last_lease, gwVars, measured, score,
                   reading, registry, lifeVars, callVars>>

NextSignal == ReadCell \/ ParseSignal

SpecSignal == InitScore /\ [][NextSignal]_vars

(***************************************************************************)
(* The worker threads: NetworkScanner.start_scan / stop_scan,              *)
(* ConnectionMonitor.start / stop, AutoSelector.start / stop, the loops of *)
(* the three workers and the loop of scan_and_connect.  The start and stop *)
(* calls come from one controlling thread at a time.  The flags and thread *)
(* handles are carried in one record w.                                    *)
(***************************************************************************)
LifeWorld ==
    [running_flag |-> running_flag, thread_of |-> thread_of, worker_pc |-> worker_pc]

SetLife(w) ==
    /\ running_flag' = w.running_flag
    /\ thread_of' = w.thread_of
    /\ worker_pc' = w.worker_pc

\* what the lifecycle actions leave alone
lifeFrame ==
    <<poolVars, connected_network, scanning, scan_ctl, scan_pc, scan_local,
      scan_results, dispVars, suitable_connections, monVars, held, last_lease,
      gwVars, pureVars, registry, callVars>>

\* a start that never takes the early return
IsRunning_Never(w, c) == FALSE

\* if self.scanning: return / if self._monitoring: return / if self._running: return
IsRunning(w, c) == w.running_flag[c]

\* start_scan() / start(): set the flag, create the thread and start it
component_start(w, c) ==
    IF IsRunning(w, c) THEN w
    ELSE [w EXCEPT !.running_flag[c] = TRUE,
                   !.thread_of[c] = Len(w.worker_pc) + 1,
                   !.worker_pc = Append(@, [component |-> c, pc |-> "top"])]

\* the threads component_start would create from w for the components cs
NewThreads(w, cs) == Cardinality({c \in cs : ~IsRunning(w, c)})

\* the part of stop_scan() / stop() before the join
component_stop_flag(w, c) == [w EXCEPT !.running_flag[c] = FALSE]

\* the part after it: the handle is dropped
component_stop_join(w, c) == [w EXCEPT !.thread_of[c] = 0]

\* join() returns: the scanner's only once its worker has left; the other two
\* also when their timeout (one interval and a little more) expires, which it
\* does while the worker is held up in its loop body
JoinReturns(w, c) ==
    IF w.thread_of[c] = 0 THEN TRUE
    ELSE \/ w.worker_pc[w.thread_of[c]].pc = "exited"
         \/ c \in {"monitor", "selector"} /\ w.worker_pc[w.thread_of[c]].pc = "body"

Calling == last_call.op = "stop" /\ last_call.phase = "joining"

CallRecord(op, c, phase) ==
    [op |-> op, component |-> c, phase |-> phase, flag_before |-> running_flag[c]]

\* a call of start_scan() / start() on component c
StartCall(c) ==
    /\ ~Calling
    /\ Len(worker_pc) + NewThreads(LifeWorld, {c}) <= MaxThreads
    /\ SetLife(component_start(LifeWorld, c))
    /\ last_call' = CallRecord("start", c, "returned")
    /\ UNCHANGED <<main_pc, scan_queue, lifeFrame>>

\* a call of stop_scan() / stop() on component c, up to the join
StopCall(c) ==
    /\ ~Calling
    /\ LET w == component_stop_flag(LifeWorld, c)
       IN  IF w.thread_of[c] # 0
           THEN /\ SetLife(w)
                /\ last_call' = CallRecord("stop", c, "joining")
           ELSE /\ SetLife(w)
                /\ last_call' = CallRecord("stop", c, "returned")
    /\ UNCHANGED <<main_pc, scan_queue, lifeFrame>>

\* the join of that call returns and the call ends
StopJoin ==
    /\ Calling
    /\ JoinReturns(LifeWorld, last_call.component)
    /\ SetLife(component_stop_join(LifeWorld, last_call.component))
    /\ last_call' = [last_call EXCEPT !.phase = "returned"]
    /\ UNCHANGED <<main_pc, scan_queue, lifeFrame>>

\* while self.scanning / while self._monitoring / while self._running
WorkerTop(t) ==
    /\ t \in DOMAIN worker_pc
    /\ worker_pc[t].pc = "top"
    /\ worker_pc' = [worker_pc EXCEPT ![t].pc =
                        IF running_flag[worker_pc[t].component] THEN "body" ELSE "exited"]
    /\ UNCHANGED <<running_flag, thread_of, main_pc, last_call, scan_queue, lifeFrame>>

\* one pass of the loop body; the scanner's pass queues a snapshot (here the
\* empty one).  put() does not block on this queue, so the pass always ends;
\* the snapshots queued beyond MaxQueue are not counted.
WorkerBody(t) ==
    /\ t \in DOMAIN worker_pc
    /\ worker_pc[t].pc = "body"
    /\ IF worker_pc[t].component = "scanner"
       THEN /\ ~Full(scan_queue)
            /\ scan_queue' = IF Len(scan_queue) < MaxQueue
                             THEN Append(scan_queue, <<>>) ELSE scan_queue
       ELSE UNCHANGED scan_queue
    /\ worker_pc' = [worker_pc EXCEPT ![t].pc = "top"]
    /\ UNCHANGED <<running_flag, thread_of, main_pc, last_call, lifeFrame>>

\* scan_and_connect is entered: the three start calls, then while True
MainEnter ==
    /\ main_pc = "idle"
    /\ ~Calling
    /\ Len(worker_pc) + NewThreads(LifeWorld, Components) <= MaxThreads
    /\ SetLife(component_start(component_start(component_start(
                   LifeWorld, "scanner"), "monitor"), "selector"))
    /\ main_pc' = "wait"
    /\ UNCHANGED <<last_call, scan_queue, lifeFrame>>

\* networks = self.scanner.get_next_scan(): scan_queue.get() without a timeout
MainGet ==
    /\ main_pc = "wait"
    /\ scan_queue # <<>>
    /\ scan_queue' = Tail(scan_queue)
    /\ main_pc' = "work"
    /\ UNCHANGED <<running_flag, thread_of, worker_pc, last_call, lifeFrame>>

\* the snapshot was processed: back to the head of while True
MainWork ==
    /\ main_pc = "work"
    /\ main_pc' = "wait"
    /\ UNCHANGED <<running_flag, thread_of, worker_pc, last_call, scan_queue, lifeFrame>>

\* something raised outside the inner try blocks: finally: stop_scan() up to
\* its join
MainRaise ==
    /\ main_pc = "work"
    /\ SetLife(component_stop_flag(LifeWorld, "scanner"))
    /\ main_pc' = "finally"
    /\ UNCHANGED <<last_call, scan_queue, lifeFrame>>

\* the join returns; connection_monitor.stop() and auto_selector.stop() follow
MainFinally ==
    /\ main_pc = "finally"
    /\ JoinReturns(LifeWorld, "scanner")
    /\ SetLife(component_stop_join(component_stop_flag(
                component_stop_join(component_stop_flag(
                component_stop_join(LifeWorld, "scanner"),
                "monitor"), "monitor"), "selector"), "selector"))
    /\ main_pc' = "stopped"
    /\ UNCHANGED <<last_call, scan_queue, lifeFrame>>

InitLifecycle ==
    /\ InitPool
    /\ cards = <<>>
    /\ config.excluded = {} /\ config.preferred = <<>> /\ config.scan_interface = None

Controller ==
    \/ \E c \in Components : StartCall(c)
    \/ \E c \in Components : StopCall(c)
    \/ StopJoin

Workers ==
    \/ \E t \in 1..MaxThreads : WorkerTop(t)
    \/ \E t \in 1..MaxThreads : WorkerBody(t)

MainThread == MainEnter \/ MainGet \/ MainWork \/ MainRaise \/ MainFinally

NextLifecycle == Controller \/ Workers \/ MainThread

SpecLifecycle == InitLifecycle /\ [][NextLifecycle]_vars

\* the daemon as main() runs it: scan_and_connect starts the three components,
\* and the only calls from outside are stop calls
NextShutdown ==
    \/ \E c \in Components : StopCall(c)
    \/ StopJoin
    \/ Workers
    \/ MainThread

\* every thread that can take a step is scheduled again and again, and a join
\* that can return does; when stop is called, and whether something raises in
\* scan_and_connect, is not up to the scheduler
FairShutdown ==
    /\ \A t \in 1..MaxThreads : WF_vars(WorkerTop(t)) /\ WF_vars(WorkerBody(t))
    /\ WF_vars(MainGet) /\ WF_vars(MainWork) /\ WF_vars(MainFinally)
    /\ WF_vars(StopJoin)

SpecShutdown == InitLifecycle /\ [][NextShutdown]_vars /\ FairShutdown

(***************************************************************************)
(* Properties of the pool (checked under SpecPool).                        *)
(***************************************************************************)
\* what get_connection_cards() returns
ConnectionCards == {c \in Range(cards) : c # scanning_card}

C6_ScanningCardInPool ==
    cards # <<>> => scanning_card \in Range(cards)

\* C7 (as claimed): the interface designated for scanning is the configured
\* scan_interface when a current card has it, and the first current card's
\* otherwise, whatever earlier enumerations produced.
C7_DesignationFromInputsOnly ==
    cards # <<>> =>
        scanning_card.iface =
            IF config.scan_interface \in Interfaces(cards)
            THEN config.scan_interface ELSE cards[1].iface

\* C8 (as claimed): while the most recent enumeration yielded no card, a lease
\* call returns None, for scanning and for a connection.
C8_NoCardsLeaseNone ==
    (cards = <<>> /\ last_lease.called) => last_lease.card = NoCard

(***************************************************************************)
(* Properties of the engine (checked under Spec).                          *)
(***************************************************************************)
\* the catalog entries flagged connected whose radio is card c
ConnectedEntriesOn(c) ==
    {k \in DOMAIN suitable_connections :
        suitable_connections[k].connected /\ suitable_connections[k].interface = c.iface}

\* the Monitor stands inside card.reconnect() for card c
MonitorReconnecting(c) ==
    /\ mon_pc = "reconnect"
    /\ mon_i <= Len(cards_to_check)
    /\ cards_to_check[mon_i] = c

\* C2: between a lease call that returns radio r and the matching return of r
\* no other lease call returns r: a lease call that hands out a card leaves
\* exactly one outstanding lease on it, and the Monitor is not inside a
\* reconnect on that card.
C2_LeaseOwnedByOneWorker ==
    (last_lease.called /\ last_lease.card # NoCard) =>
        /\ held[last_lease.card] = 1
        /\ ~MonitorReconnecting(last_lease.card)

\* C3: while the catalog holds an entry flagged connected on radio r, a lease
\* for a connection never returns r.
C3_ConnectedCardNeverLeased ==
    (last_lease.called /\ ~last_lease.for_scanning /\ last_lease.card # NoCard)
        => ConnectedEntriesOn(last_lease.card) = {}

\* C4: when a module's connect returns (whatever the exit path) the card it
\* leased has been returned to the pool.
C4_AttemptReturnsCard ==
    (disp_pc = "result" /\ mod_card # NoCard) => held[mod_card] = 0

\* C5: outside an iteration (at the top of the loop, after the loop, and once
\* stop_scan has completed) the Scanner holds no card and the scanning card is
\* not leased; stop_scan completes only after the worker has left its loop.
C5_ScannerReturnsCard ==
    /\ scan_pc \in {"top", "done", "idle"} =>
          /\ scan_local = NoCard
          /\ scanning_card # NoCard => (scanning_card \notin in_use /\ held[scanning_card] = 0)
    /\ scan_ctl = "stopped" => scan_pc = "idle"

\* stop_scan has completed after an iteration that published a snapshot
C5_Witness ==
    /\ scan_ctl = "stopped"
    /\ scan_queue # <<>>
    /\ scanning_card # NoCard
    /\ held[scanning_card] = 0

C10_NoDuplicateConnected ==
    \A i, j \in DOMAIN suitable_connections :
        (/\ i # j
         /\ suitable_connections[i].connected
         /\ suitable_connections[j].connected
         /\ suitable_connections[i].network.bssid = suitable_connections[j].network.bssid)
            => suitable_connections[i].interface # suitable_connections[j].interface

\* the Dispatcher stands at the repeated BSSID of a snapshot, the first
\* occurrence is in the catalog, and that entry's card could be leased again
C10_Witness ==
    /\ disp_pc = "net"
    /\ net_i = 2
    /\ net_i <= Len(networks)
    /\ networks[1].bssid = networks[2].bssid
    /\ AlreadyConnected(networks[net_i])
    /\ \E k \in DOMAIN suitable_connections :
          /\ suitable_connections[k].network.bssid = networks[net_i].bssid
          /\ CardForInterface(suitable_connections[k].interface) # NoCard
          /\ CardForInterface(suitable_connections[k].interface) \notin in_use


(***************************************************************************)
(* Properties of the gateway side (checked under SpecGateway).             *)
(***************************************************************************)
\* the bridges whose start() has succeeded and that were not stopped since
ActiveBridges == {b \in BridgeIds : bridges[b].is_active}

\* no use_connection call is under way
NoCallUnderWay == \A t \in Callers : uc[t].pc = "idle"

\* C11: at most one NetworkBridge is active at any time, also when bind
\* requests of the selector and of the HTTP endpoint overlap
C11_AtMostOneActiveBridge == Cardinality(ActiveBridges) <= 1

\* a step in which NetworkBridge.stop() runs on bridge b: the stop at the head
\* of use_connection, or stop_current_connection
StopRuns(b) ==
    /\ active_bridge = b
    /\ \/ stop_current_connection
       \/ \E t \in Callers :
              uc[t].index < Len(suitable_connections) /\ UseConnectionEnter(t)

\* C12: after stop() completes on a bridge that start() was called on, the
\* host's IP-forwarding setting equals the value it had on entry to that start()
C12_StopRestoresForwarding ==
    [][\A b \in BridgeIds :
          (bridges[b].entry_ip_forward # None /\ StopRuns(b))
              => ip_forward' = bridges[b].entry_ip_forward]_vars

\* a step in which the DHCP half of start() fails for the call of thread t
DhcpStepFails(t) ==
    \E outcome \in DhcpOutcomes \ {"ok"} : UseConnectionDhcp(t, outcome)

\* C13: when the DHCP step fails after the NAT rules were installed, the bridge
\* is not active, the rule tables and the forwarding setting equal their values
\* from before start() was called, and no address or DHCP server of the bridge
\* is left
C13_DhcpFailureRollsBack ==
    [][\A t \in Callers :
          DhcpStepFails(t) =>
              LET b == uc[t].bridge
              IN  /\ ~bridges'[b].is_active
                  /\ iptables' = bridges[b].entry_iptables
                  /\ ip_forward' = bridges[b].entry_ip_forward
                  /\ ~bridges'[b].ip_configured
                  /\ ~bridges'[b].dhcp_server
                  /\ b \notin dhcp_servers']_vars

\* C14: with no bind under way, the status reports a binding exactly when a
\* bridge is active, and the reported radio is that of an active bridge
C14_StatusMatchesBridge ==
    NoCallUnderWay =>
        /\ (current_bridge # NoBinding) <=> (ActiveBridges # {})
        /\ current_bridge # NoBinding =>
               \E b \in ActiveBridges :
                   bridges[b].wifi_interface = current_bridge.wifi_interface


\* the state right after a pass of the selector's worker that evaluated
WorkerTick == last_tick.kind = "worker" /\ last_tick.evaluated

\* the status names a binding, its bridge is active, its Connection is in the
\* catalog, and no HTTP bind is under way
BoundInCatalog ==
    /\ current_bridge # NoBinding
    /\ \E b \in ActiveBridges : bridges[b].wifi_interface = current_bridge.wifi_interface
    /\ CurrentMatches # {}
    /\ uc["http"].pc = "idle"

\* the largest score in the catalog, which is not empty
BestScore ==
    CHOOSE m \in {calculate_score(suitable_connections[k]) : k \in DOMAIN suitable_connections} :
        \A k \in DOMAIN suitable_connections : calculate_score(suitable_connections[k]) <= m

\* the score of the bound Connection
CurrentScore == calculate_score(CurrentConnection)

\* the tick asked use_connection for a catalog entry with the largest score
RequestedBest ==
    /\ last_tick.requested
    /\ uc["selector"].pc = "enter"
    /\ uc["selector"].index = last_tick.index
    /\ last_tick.index + 1 \in DOMAIN suitable_connections
    /\ calculate_score(suitable_connections[last_tick.index + 1]) = BestScore

\* the tick asked for nothing
RequestedNothing == ~last_tick.requested /\ uc["selector"].pc = "idle"

C17_TieKeepsBinding ==
    (WorkerTick /\ BoundInCatalog /\ BestScore = CurrentScore) => RequestedNothing

\* C18: with no bridge active and a catalog that is not empty, a tick of the
\* enabled selector requests one bind, to an entry with the largest score
C18_UnboundTickBindsBest ==
    (WorkerTick /\ ActiveBridges = {} /\ uc["http"].pc = "idle"
        /\ suitable_connections # <<>>) => RequestedBest

\* a pass of the worker or a direct call of the evaluation step
SelectorTick == selector_worker \/ evaluate_and_switch

\* C19: with an empty catalog a selector tick requests no bind and leaves the
\* bridges, the status and the host as they are, bound or not
C19_EmptyCatalogNoOp ==
    [][(suitable_connections = <<>> /\ SelectorTick) =>
          /\ ~last_tick'.requested
          /\ UNCHANGED <<uc, active_bridge, bridges, current_bridge, hostVars,
                         suitable_connections>>]_vars

\* an evaluation that ran on an empty catalog while a bridge was active
C19_Witness ==
    /\ last_tick.evaluated
    /\ suitable_connections = <<>>
    /\ ActiveBridges # {}
    /\ current_bridge # NoBinding
    /\ NoCallUnderWay

\* C20: while auto-selection is disabled neither a pass of the worker nor a
\* direct call of the evaluation step evaluates or requests a bind
C20_DisabledDoesNotEvaluate ==
    (last_tick.kind # "none" /\ ~sel_enabled) =>
        (~last_tick.evaluated /\ ~last_tick.requested)


(***************************************************************************)
(* The Monitor's give-up (checked under Spec).                             *)
(***************************************************************************)
\* the card the Monitor's tick is at
TickCard == cards_to_check[mon_i]

\* a step in which the Monitor finds the card of its tick, which has a cached
\* network, not healthy
FailedCheck ==
    /\ mon_pc = "check"
    /\ mon_pc' \in {"reconnect", "notify_fail"}

\* in the step the Monitor gives up on the card: the cached network is cleared,
\* the counter is back at 0 and the failure is about to be notified
GivesUpOnCard ==
    /\ mon_pc' = "notify_fail"
    /\ connected_network'[TickCard] = NoNetwork
    /\ reconnect_attempts'[TickCard.iface] = 0

\* C15 as stated: on the max_attempts-th consecutive failed tick, that is with
\* max_attempts - 1 failed ticks counted before it, the Monitor gives up
C15_GivesUpOnMaxthFailedTick ==
    [][(FailedCheck /\ reconnect_attempts[TickCard.iface] = MaxReconnectAttempts - 1)
           => GivesUpOnCard]_vars

\* C15: a failed tick with fewer than max_attempts failed ticks counted goes on
\* to reconnect and counts one more; the failed tick that finds max_attempts
\* counted, the (max_attempts + 1)-th in a row, gives up; and the write that
\* ends the notification leaves no catalog entry of that radio
C15_GivesUpAfterMaxFailedTicks ==
    [][/\ (FailedCheck /\ reconnect_attempts[TickCard.iface] < MaxReconnectAttempts)
            => /\ mon_pc' = "reconnect"
               /\ connected_network'[TickCard] = connected_network[TickCard]
               /\ reconnect_attempts'[TickCard.iface] =
                      reconnect_attempts[TickCard.iface] + 1
       /\ (FailedCheck /\ reconnect_attempts[TickCard.iface] >= MaxReconnectAttempts)
            => GivesUpOnCard
       /\ (mon_pc = "prune_write" /\ mon_pc' # "prune_write")
            => \A k \in DOMAIN suitable_connections' :
                   suitable_connections'[k].interface # TickCard.iface]_vars

\* the Monitor has given up on a card and is about to notify the failure
C15_Witness ==
    /\ mon_pc = "notify_fail"
    /\ connected_network[TickCard] = NoNetwork
    /\ reconnect_attempts[TickCard.iface] = 0
    /\ \E k \in DOMAIN suitable_connections :
           suitable_connections[k].interface = TickCard.iface


(***************************************************************************)
(* Properties of the Dispatcher's attempts (checked under Spec).           *)
(***************************************************************************)
\* C21: when card.connect failed on every retry in an attempt, the result the
\* module hands back is not connected, whatever the speedtest measured
C21_FailedAssociateNotConnected ==
    (disp_pc = "result" /\ associated = "failed") => ~result.connected

(* Properties of calculate_score (checked under SpecScore). *)
\* the weighted sum the scoring rule names, in thousandths of a point, for
\* rates in hundredths of a Mbps: 0.40*min(100, down) + 0.30*signal
\* + 0.20*min(100, 2*up) + 0.10*max(0, 100 - latency/2)
WeightedSum(down, up, sig, latency) ==
    4 * MinOf(10000, down) + 300 * sig + 2 * MinOf(10000, 2 * up)
      + MaxOf(0, 10000 - 50 * latency)

MeasuredSum ==
    WeightedSum(measured.download_speed, measured.upload_speed,
                measured.network.signal_strength, measured.ping)

\* the three worked examples: (100, 50, 100, 0) gives 100, (0, 0, 0, 200)
\* gives 0 and (25, 10, 60, 50) gives 39.5
ScoreExamples ==
    /\ measured = Measurement(10000, 5000, 100, 0) => score.value = 10000
    /\ measured = Measurement(0, 0, 0, 200) => score.value = 0
    /\ measured = Measurement(2500, 1000, 60, 50) => score.value = 3950

\* C22 as stated: the score calculate_score returns is the weighted sum itself,
\* lies in 0..100 and takes the three example values
C22_ScoreIsWeightedSum ==
    score.returned =>
        /\ 10 * score.value = MeasuredSum
        /\ score.value \in 0..10000
        /\ ScoreExamples

\* C22, amended: the score calculate_score returns is the weighted sum rounded
\* to two decimals (the hundredth nearest to it), lies in 0..100 and takes the
\* three example values
C22_ScoreIsRoundedWeightedSum ==
    score.returned =>
        /\ 10 * score.value - MeasuredSum \in (0 - 4)..4
        /\ score.value \in 0..10000
        /\ ScoreExamples

\* a score was returned for measurements whose weighted sum has a third decimal
C22_Witness == score.returned /\ MeasuredSum % 10 # 0


(* Properties of the signal parsing (checked under SpecSignal). *)
\* C23: a dBm reading d is stored as clamp(0, 100, (d + 100) * 2) and a
\* reading x/N as round(x/N * 100), the whole number nearest to 100x/N, so
\* the stored value is within 0..100
C23_SignalNormalized ==
    signal.stored =>
        /\ reading.form = "dbm" =>
              /\ (reading.x + 100) * 2 < 0 => signal.value = 0
              /\ (reading.x + 100) * 2 > 100 => signal.value = 100
              /\ (reading.x + 100) * 2 \in 0..100 => signal.value = (reading.x + 100) * 2
        /\ reading.form \in {"quality", "level_quality"} =>
              2 * (reading.n * signal.value - 100 * reading.x) \in (0 - reading.n)..reading.n
        /\ reading.form \in {"dbm", "quality", "level_quality"} => signal.value \in 0..100


(* Properties of the Scanner-to-Dispatcher queue (checked under SpecChannel). *)
\* C24: the channel is bounded: while the Dispatcher is inside an attempt and
\* the Scanner keeps publishing, the number of queued snapshots stays within a
\* capacity (one below the backlog the run is followed to)
C24_ChannelBounded ==
    [][(disp_pc \in {"assoc", "portal", "speed"} /\ Len(scan_queue') > Len(scan_queue))
          => Len(scan_queue') < MaxBacklog]_vars


(* Properties of the worker threads (checked under SpecLifecycle and SpecShutdown). *)
\* the flags, the thread handles, the threads and what they share
lifeState == <<running_flag, thread_of, worker_pc, main_pc, scan_queue>>

\* C25: start and stop are idempotent for the Scanner, the Monitor and the
\* Selector: a start call on a component whose flag is up creates no thread and
\* changes no state, and a stop call on a stopped component changes no state
C25_StartStopIdempotent ==
    [][\A c \in Components :
          /\ (StartCall(c) /\ running_flag[c]) => UNCHANGED lifeState
          /\ (StopCall(c) /\ ~running_flag[c] /\ thread_of[c] = 0) => UNCHANGED lifeState]_vars

\* a start call returned on a component that was running, its worker inside
\* the loop
C25_Witness ==
    /\ last_call.op = "start" /\ last_call.flag_before
    /\ thread_of[last_call.component] # 0
    /\ worker_pc[thread_of[last_call.component]].pc = "body"

\* a stop call returned on a component that was stopped, after it had run
C25_WitnessStop ==
    /\ last_call.op = "stop" /\ ~last_call.flag_before /\ last_call.phase = "returned"
    /\ \E t \in DOMAIN worker_pc : worker_pc[t].component = last_call.component

\* scan_and_connect was entered and the flags of all three components are down
FlagsDown == main_pc # "idle" /\ \A c \in Components : ~running_flag[c]

\* the three workers have left their loops
WorkersExited == \A t \in DOMAIN worker_pc : worker_pc[t].pc = "exited"

\* the Scanner's, the Monitor's and the Selector's worker leave their loops
\* once the flags are down
WorkersLeaveOnShutdown == FlagsDown ~> WorkersExited

\* C26: every worker, the Dispatcher included, checks a running flag at the top
\* of its loop: once the flags are down, the three workers and scan_and_connect
\* eventually leave their loops and terminate
C26_AllWorkersTerminate == FlagsDown ~> (WorkersExited /\ main_pc = "stopped")


(* Properties of the card registry (checked under SpecPool). *)
\* the radios of the pool whose lease flag is set
LeasedCards == {c \in Range(cards) : c \in in_use}

\* C27: the registry is updated together with every lease and return: the
\* registry record of each enumerated interface has its in_use flag equal to
\* the pool's lease flag of that radio, and cards_in_use is the number of
\* leased radios
C27_RegistryTracksLeases ==
    /\ \A c \in Range(cards) :
          c.iface \in DOMAIN registry => registry[c.iface].in_use = (c \in in_use)
    /\ (\A c \in Range(cards) : c.iface \in DOMAIN registry)
          => cards_in_use = Cardinality(LeasedCards)


(* Properties of the Dispatcher's pass over a snapshot (checked under Spec). *)
\* C28: an AP is offered to the strategies in set order: the next attempt is
\* by the first strategy, from the position reached, that accepts the AP; a
\* connected result appends exactly that one Connection, and the step after it
\* leaves the AP for the next one without another attempt
C28_FirstSuccessEndsAP ==
    [][/\ (disp_pc = "mod" /\ disp_pc' = "lease") =>
             /\ net_i' = net_i /\ networks' = networks
             /\ mod_i' >= mod_i
             /\ CanConnect(Modules[mod_i'], networks[net_i])
             /\ \A k \in mod_i..(mod_i' - 1) : ~CanConnect(Modules[k], networks[net_i])
       /\ (disp_pc = "result" /\ result.connected /\ disp_pc' # "result") =>
             /\ suitable_connections' = Append(suitable_connections, result)
             /\ disp_pc' = "watch"
       /\ (disp_pc = "watch" /\ disp_pc' # "watch") =>
             /\ disp_pc' = "net" /\ net_i' = net_i + 1
             /\ suitable_connections' = suitable_connections]_vars

\* a Connection was appended for an AP that a later strategy accepts too
C28_Witness ==
    /\ disp_pc = "watch"
    /\ suitable_connections # <<>> /\ Last(suitable_connections) = result
    /\ EligibleFrom(mod_i + 1, networks[net_i]) # {}

\* C29: every catalog entry has connected = true and the catalog grows only by
\* a result that came back connected; a result that is not connected (also
\* the one a module builds when something raised) appends nothing and sends
\* the AP to the next strategy, an AP no strategy is left for is followed by
\* the next AP, and the end of the snapshot by the wait for the next one
C29_OnlyConnectedResultsEnterCatalog ==
    /\ [](\A k \in DOMAIN suitable_connections : suitable_connections[k].connected)
    /\ [][/\ Len(suitable_connections') > Len(suitable_connections) =>
                /\ disp_pc = "result" /\ result.connected
                /\ suitable_connections' = Append(suitable_connections, result)
          /\ (disp_pc = "result" /\ ~result.connected /\ disp_pc' # "result") =>
                /\ suitable_connections' = suitable_connections
                /\ disp_pc' = "mod" /\ mod_i' = mod_i + 1 /\ net_i' = net_i
          /\ (disp_pc = "mod" /\ disp_pc' = "net") =>
                /\ suitable_connections' = suitable_connections
                /\ net_i' = net_i + 1
          /\ (disp_pc = "net" /\ net_i > Len(networks) /\ disp_pc' # "net") =>
                disp_pc' = "wait"]_vars

\* every strategy that accepts the first AP of a snapshot was tried, nothing
\* was appended and the Dispatcher is at the next AP
C29_Witness ==
    /\ disp_pc = "net" /\ net_i = 2
    /\ EligibleFrom(1, networks[1]) # {}
    /\ suitable_connections = <<>>

\* how often card c is in the watchlist
Watched(c) == Cardinality({k \in DOMAIN monitored_cards : monitored_cards[k] = c})

\* C30: once the Dispatcher has appended a Connection on a radio and handed the
\* radio to the Monitor, the radio is in the watchlist exactly once, also when
\* it was watched before; no radio is in the watchlist twice
C30_AppendedRadioWatchedOnce ==
    /\ [](\A c \in AllCards : Watched(c) <= 1)
    /\ [][(disp_pc = "watch" /\ disp_pc' # "watch") =>
             /\ CardForInterface(result.interface) # NoCard
             /\ Cardinality({k \in DOMAIN monitored_cards' :
                    monitored_cards'[k] = CardForInterface(result.interface)}) = 1]_vars
    /\ [](\A k \in DOMAIN suitable_connections :
             \/ disp_pc = "watch" /\ suitable_connections[k] = result
             \/ Watched(CardForInterface(suitable_connections[k].interface)) = 1)

\* two Connections on one radio are in the catalog and the radio is watched once
C30_Witness ==
    /\ disp_pc # "watch"
    /\ \E j, k \in DOMAIN suitable_connections :
          /\ j # k
          /\ suitable_connections[j].interface = suitable_connections[k].interface
          /\ Watched(CardForInterface(suitable_connections[k].interface)) = 1



(***************************************************************************)
(* The Monitor's counter of failed checks.                                 *)
(***************************************************************************)
\* the Monitor's latest step was the check of a card it found healthy
HealthyTick == mon_last.kind = "healthy"
\* the Monitor's latest step gave up on a card
GaveUp == mon_last.kind = "give_up"

\* C31: a tick that finds a radio healthy leaves its counter of failed checks at
\* 0, so the counter never exceeds the number of ticks in a row on which the
\* radio was found unhealthy, and the Monitor gives up on a radio only at the
\* end of such a run of at least max_reconnect_attempts ticks before the one
\* that gives up.
C31_HealthyTickResetsCounter ==
    /\ HealthyTick => reconnect_attempts[mon_last.interface] = 0
    /\ \A i \in WirelessNames : reconnect_attempts[i] <= mon_last.streak[i]
    /\ GaveUp => /\ mon_last.attempts >= MaxReconnectAttempts
                 /\ mon_last.streak[mon_last.interface] > MaxReconnectAttempts

\* a healthy tick found a counter above 0 and reset it
C31_Witness == HealthyTick /\ mon_last.attempts > 0
\* the Monitor gave up on a radio
C31_WitnessGiveUp == GaveUp


(***************************************************************************)
(* The reconnect of a failed tick.                                         *)
(***************************************************************************)
\* the Monitor's step is the reconnect call of a failed tick
ReconnectStep == mon_pc = "reconnect" /\ mon_pc' # "reconnect"
\* the Monitor's step is a check that goes on to call reconnect
FailedTickStep == mon_pc = "check" /\ mon_pc' = "reconnect"

\* C32: a tick that finds a radio unhealthy with its counter under
\* max_reconnect_attempts adds 1 to the counter and is followed by one
\* reconnect call, which hands the cached access point to connect and makes at
\* most 2 association attempts; when it succeeds the counter is 0 and the
\* subscribers are notified once, with (radio, True); when it fails the counter
\* keeps its incremented value and nobody is notified.
C32_FailedTickReconnectsOnce ==
    [][/\ FailedTickStep =>
            /\ mon_last'.kind = "failed"
            /\ mon_last'.attempts < MaxReconnectAttempts
            /\ reconnect_attempts'[mon_last'.interface] = mon_last'.attempts + 1
            /\ cards_to_check[mon_i].iface = mon_last'.interface
       /\ mon_pc = "reconnect" =>
            /\ mon_last.kind = "failed"
            /\ cards_to_check[mon_i].iface = mon_last.interface
            /\ reconnect_attempts[mon_last.interface] = mon_last.attempts + 1
       /\ ReconnectStep =>
            LET card == cards_to_check[mon_i]
                i == card.iface
            IN  /\ mon_pc' = "check" /\ mon_i' = mon_i + 1
                /\ mon_last'.kind \in {"reconnect_ok", "reconnect_failed"}
                /\ mon_last'.interface = i
                /\ connected_network[card] # NoNetwork
                /\ mon_last'.network = connected_network[card]
                /\ mon_last'.tries \in 1..ReconnectMaxRetries
                /\ connected_network'[card] = connected_network[card]
                /\ suitable_connections' = suitable_connections
                /\ IF mon_last'.kind = "reconnect_ok"
                   THEN /\ reconnect_attempts'[i] = 0
                        /\ mon_last'.notified = <<[interface |-> i, success |-> TRUE]>>
                   ELSE /\ reconnect_attempts'[i] = mon_last.attempts + 1
                        /\ mon_last'.notified = <<>>
                        /\ mon_last'.tries = ReconnectMaxRetries
      ]_vars

\* a reconnect succeeded at its second association attempt, on a radio whose
\* counter stood at 3 before
C32_Witness ==
    /\ mon_last.kind = "reconnect_ok" /\ mon_last.tries = 2 /\ mon_last.attempts = 3
    /\ reconnect_attempts[mon_last.interface] = 0
\* a reconnect failed and left the counter at 2
C32_WitnessFailed ==
    /\ mon_last.kind = "reconnect_failed"
    /\ reconnect_attempts[mon_last.interface] = 2


(***************************************************************************)
(* WifiCard.connect: attempts, backoff and caching.                        *)
(***************************************************************************)
\* the call under way went through connect's loop
InConnect == connect_call.pc \in {"loop", "try", "backoff"}
ConnectReturned == connect_call.pc = "returned" /\ connect_call.network # NoNetwork
\* the delays slept after failed attempts 1, 2, 3 of a call with base delay b
ExpectedDelays(b) == <<b, 2 * b, 4 * b>>
\* the attempts made so far, as successes and failures
AsRun(outcomes) == [k \in DOMAIN outcomes |-> outcomes[k] = "ok"]

\* C33: connect makes at most max_retries attempts and stops at the first
\* success; after failed attempt k it sleeps base_delay * 2^(k-1), and only when
\* another attempt follows; the card's cached access point and credential
\* change only when an attempt succeeds, to the ones the call was given.
C33_ConnectRetriesWithBackoff ==
    (InConnect \/ ConnectReturned) =>
        LET c == connect_call
            made == Len(c.outcomes)
        IN  /\ c.attempt <= c.max_retries
            /\ made = IF c.pc = "try" THEN c.attempt - 1 ELSE c.attempt
            /\ \A k \in 1..(made - 1) : c.outcomes[k] # "ok"
            /\ (made > 0 /\ c.outcomes[made] = "ok") <=> (c.pc = "returned" /\ c.returned)
            /\ \A k \in DOMAIN c.slept : c.slept[k] = ExpectedDelays(c.base_delay)[k]
            /\ Len(c.slept) = IF c.pc = "loop" /\ c.attempt < c.max_retries
                              THEN c.attempt
                              ELSE IF c.attempt = 0 THEN 0 ELSE c.attempt - 1
            /\ IF c.pc = "returned" /\ c.returned
               THEN /\ wifi_card.connected_network = c.network
                    /\ wifi_card.connection_password = c.password
                    /\ wifi_card.in_use
               ELSE /\ wifi_card.connected_network = c.before.connected_network
                    /\ wifi_card.connection_password = c.before.connection_password
            /\ c.pc = "returned" =>
                  /\ AsRun(c.outcomes) \in AttemptRuns(c.max_retries)
                  /\ c.returned = Connected(AsRun(c.outcomes))
                  /\ ~c.returned => made = c.max_retries /\ ~wifi_card.in_use

\* a call with the default max_retries failed three times, slept 1 s and 2 s,
\* and left the cache of an earlier connection alone
C33_Witness ==
    /\ ConnectReturned /\ ~connect_call.returned
    /\ connect_call.max_retries = DefaultMaxRetries
    /\ connect_call.slept = <<DefaultBaseDelay, 2 * DefaultBaseDelay>>
    /\ connect_call.network = AP_Home
    /\ wifi_card.connected_network = AP_Cafe
\* a call succeeded at its third attempt and cached its network and password
C33_WitnessSuccess ==
    /\ ConnectReturned /\ connect_call.returned /\ connect_call.attempt = 3
    /\ connect_call.max_retries = MaxRetriesArg
    /\ wifi_card.connection_password = "secret"

\* reconnect hands the cached access point and credential to connect
ReconnectUsesCache ==
    [][\A max_retries \in {ReconnectMaxRetries, DefaultMaxRetries}, base_delay \in BaseDelays :
          (ReconnectEnter(max_retries, base_delay) /\ wifi_card.connected_network # NoNetwork)
             => /\ connect_call'.network = wifi_card.connected_network
                /\ connect_call'.password = wifi_card.connection_password
                /\ connect_call'.max_retries = max_retries]_vars


(***************************************************************************)
(* The Scanner's pass when the scan fails.                                 *)
(***************************************************************************)
\* the Scanner's step ends the scan of the pass, whatever card.scan() did
ScanEnds == scan_pc = "scan" /\ scan_pc' # "scan"

\* C34: every scan the Scanner makes, failed ones included, ends with a
\* snapshot stored in scan_results and put on scan_queue (the empty list when
\* the scan failed), after which the loop goes on.
C34_FailedScanPublishesEmpty ==
    [][ScanEnds =>
          /\ scan_queue' = Append(scan_queue, scan_results')
          /\ scan_pc' = "sleep"]_vars


\* the Scanner is in time.sleep(scan_interval) after a published scan
ScannerSleeps == scan_pc = "sleep"

\* C35: while the Scanner sleeps between two scans the card it scanned with is
\* back in the pool: it is not marked in use and the Scanner's lease is over.
C35_RadioReturnedBeforeSleep ==
    ScannerSleeps => (scan_local \notin in_use /\ held[scan_local] = 0)


(***************************************************************************)
(* The catalog under the Dispatcher's appends and the Monitor's prunes.    *)
(***************************************************************************)
\* the Connections the Dispatcher appended whose interface the Monitor never
\* gave up on
AppendedAndKept ==
    {mon_last.appended[k] : k \in {j \in DOMAIN mon_last.appended :
                                     mon_last.appended[j].interface \notin mon_last.given_up}}

\* C36: a Connection the Dispatcher appended is in the catalog as long as the
\* Monitor has not given up on its interface, whatever prunes of other
\* interfaces ran beside the append.
C36_AppendSurvivesPruneOfOtherInterface ==
    AppendedAndKept \subseteq Range(suitable_connections)


\* the Monitor's step completes the give-up hook by storing the new catalog
PruneStep == mon_pc = "prune_write" /\ mon_pc' # "prune_write"

\* C40: the give-up hook leaves the catalog as it was without the entries of
\* the interface given up on, the other entries in their order; the
\* notification of a successful reconnect leaves the catalog as it was.
C40_PruneRemovesExactlyOneInterface ==
    [][/\ PruneStep =>
            suitable_connections' =
                WithoutInterface(suitable_connections, cards_to_check[mon_i].iface)
       /\ ReconnectStep => suitable_connections' = suitable_connections]_vars

\* the same with the hook's two steps taken together: what is stored is the
\* catalog read by the comprehension without the interface given up on
PruneOfCatalogRead ==
    [][/\ (mon_pc = "notify_fail" /\ mon_pc' = "prune_write") =>
            pruned' = WithoutInterface(suitable_connections, cards_to_check[mon_i].iface)
       /\ PruneStep => suitable_connections' = pruned]_vars


(***************************************************************************)
(* The gateway binding and the catalog under the Monitor's prune.          *)
(***************************************************************************)
\* the catalog has a Connection with the radio and SSID of the status binding
BindingInCatalog ==
    \E k \in DOMAIN suitable_connections :
        /\ suitable_connections[k].interface = current_bridge.wifi_interface
        /\ suitable_connections[k].network.ssid = current_bridge.ssid

\* C37: whenever status['current_bridge'] names a radio and an SSID, the
\* catalog holds a Connection with that radio and SSID.
C37_BindingNeverDangles ==
    current_bridge # NoBinding => BindingInCatalog

\* the selector worker's use_connection call has not read the catalog entry yet
SelectorCallPending(call) == call.pc \in {"enter", "read"}

\* C38: from the moment the selector worker hands an index to use_connection
\* until use_connection reads the catalog at that index, the index denotes the
\* same Connection.
C38_RankedIndexStable ==
    [][(/\ SelectorCallPending(uc["selector"])
        /\ SelectorCallPending(uc'["selector"])
        /\ uc'["selector"].index = uc["selector"].index)
          => /\ uc["selector"].index < Len(suitable_connections')
             /\ suitable_connections'[uc["selector"].index + 1] =
                   suitable_connections[uc["selector"].index + 1]]_vars


(***************************************************************************)
(* The worker threads of the Monitor and the Selector.                     *)
(***************************************************************************)
\* the threads of component c that were started and have not left their loop
LiveWorkers(c) ==
    {t \in DOMAIN worker_pc : worker_pc[t].component = c /\ worker_pc[t].pc # "exited"}

\* C39: the Monitor and the Selector each have at most one live worker thread,
\* whatever start and stop calls were made.
C39_AtMostOneLiveWorker ==
    \A c \in {"monitor", "selector"} : Cardinality(LiveWorkers(c)) <= 1

====
